---- MODULE Spec2Model ----
(***************************************************************************)
(* State-machine model of the SWFE sidewalk annotation tool                *)
(* (src/app/gui.py, src/app/utils.py, src/app/annotations_service.py,      *)
(* src/app/models.py).                                                     *)
(*                                                                         *)
(* Conventions                                                             *)
(*   - Python floats are modelled as exact rationals <<n, d>> (d > 0,      *)
(*     lowest terms); floating-point rounding is not modelled.             *)
(*   - Python str values are sequences of one-character strings, so that   *)
(*     startswith / split / strip / lower / int() / float() are computed.  *)
(*   - None is the empty tuple NoneV; an optional integer n is Some(n).    *)
(***************************************************************************)
EXTENDS Integers, Sequences, FiniteSets, TLC

VARIABLES
    labels,                        \* self.labels
    selected_label_id,             \* self.selected_label_id
    Transformer,                   \* whether pyproj was importable (module global)
    xml_files,                     \* the annotation records on disk, by image stem
    image_paths,                   \* self.image_paths (each path as the file it names)
    image_index,                   \* self.image_index
    current_image_path,            \* self.current_image_path
    current_image,                 \* self.current_image
    current_georef_bounds,         \* self.current_georef_bounds
    current_geo_affine,            \* self.current_geo_affine
    current_geo_epsg,              \* self.current_geo_epsg
    current_to_wgs84_transformer,  \* self.current_to_wgs84_transformer
    current_annotations,           \* self.current_annotations
    zoom, view_x, view_y,          \* self.zoom, self.view_x, self.view_y
    canvas,                        \* <<winfo_width, winfo_height>> of self.canvas
    last_drag,                     \* <<self.last_drag_x, self.last_drag_y>>
    show_annotations_var,          \* self.show_annotations_var
    icon_cache,                    \* self.icon_cache: label id -> bitmap
    hq_render_job,                 \* self._hq_render_job
    tk_after,                      \* callbacks pending in the Tk timer queue
    score_var,                     \* self.score_var (exact value and shown text)
    counter,                       \* content handed to counter_window.update_content
    kmz_file,                      \* the archive written by export_kmz (NoneV: none)
    key_bindings,                  \* root.bind(key, handler): key -> label id it selects
    dialog,                        \* last messagebox raised by a handler
    arg,                           \* inputs of a function applied in isolation
    ret                            \* its result

vars == <<labels, selected_label_id, Transformer, xml_files, image_paths, image_index,
          current_image_path, current_image, current_georef_bounds,
          current_geo_affine, current_geo_epsg, current_to_wgs84_transformer,
          current_annotations, zoom, view_x, view_y, canvas, last_drag,
          show_annotations_var, icon_cache, hq_render_job, tk_after,
          score_var, counter, kmz_file, key_bindings, dialog, arg, ret>>

NoneV == <<>>
Some(x) == <<x>>

\* no messagebox was raised
NoDialog == ""

-----------------------------------------------------------------------------
(* Bounds of the model *)

MaxAnn == 2         \* longest annotation list drawn as an input

-----------------------------------------------------------------------------
(* Integers and rationals *)

Abs(n) == IF n < 0 THEN -n ELSE n

RECURSIVE Gcd(_, _)
Gcd(a, b) == IF b = 0 THEN a ELSE Gcd(b, a % b)

\* the rational n/d in lowest terms with a positive denominator
Rat(n, d) ==
    LET s == IF d < 0 THEN -1 ELSE 1
        g == Gcd(Abs(n), Abs(d))
    IN  <<(s * n) \div g, (s * d) \div g>>

RInt(n) == <<n, 1>>
\* the factor that takes the denominator of p to the least common denominator of p, q
Scale(p, q) == q[2] \div Gcd(p[2], q[2])
RAdd(p, q) == Rat(p[1] * Scale(p, q) + q[1] * Scale(q, p), p[2] * Scale(p, q))
RSub(p, q) == Rat(p[1] * Scale(p, q) - q[1] * Scale(q, p), p[2] * Scale(p, q))
RMul(p, q) == Rat(p[1] * q[1], p[2] * q[2])
RDiv(p, q) == Rat(p[1] * q[2], p[2] * q[1])
RNeg(p) == <<-p[1], p[2]>>
RLt(p, q) == p[1] * Scale(p, q) < q[1] * Scale(q, p)
RLe(p, q) == p[1] * Scale(p, q) <= q[1] * Scale(q, p)
RMax(p, q) == IF RLt(p, q) THEN q ELSE p       \* Python max(p, q): first maximal
RMin(p, q) == IF RLt(q, p) THEN q ELSE p       \* Python min(p, q): first minimal
RAbs(p) == <<Abs(p[1]), p[2]>>

-----------------------------------------------------------------------------
(* Strings as sequences of characters *)

Digits == <<"0", "1", "2", "3", "4", "5", "6", "7", "8", "9">>
DigitSet == {Digits[i] : i \in 1..10}
DigitVal(c) == (CHOOSE i \in 1..10 : Digits[i] = c) - 1

\* str.startswith
StartsWith(s, p) == Len(s) >= Len(p) /\ SubSeq(s, 1, Len(p)) = p

\* str.split(sep) for a one-character separator: always at least one part
RECURSIVE Split(_, _)
Split(s, sep) ==
    IF \A i \in 1..Len(s) : s[i] # sep
    THEN <<s>>
    ELSE LET k == CHOOSE i \in 1..Len(s) :
                      s[i] = sep /\ \A j \in 1..(i - 1) : s[j] # sep
         IN  <<SubSeq(s, 1, k - 1)>> \o Split(SubSeq(s, k + 1, Len(s)), sep)

\* str.strip() over the whitespace of the model's alphabet
RECURSIVE LStrip(_)
LStrip(s) == IF Len(s) > 0 /\ s[1] = " " THEN LStrip(Tail(s)) ELSE s
RECURSIVE RStrip(_)
RStrip(s) == IF Len(s) > 0 /\ s[Len(s)] = " " THEN RStrip(SubSeq(s, 1, Len(s) - 1)) ELSE s
Strip(s) == RStrip(LStrip(s))

RECURSIVE DigitsValue(_)
DigitsValue(s) == IF Len(s) = 0 THEN 0
                  ELSE 10 * DigitsValue(SubSeq(s, 1, Len(s) - 1)) + DigitVal(s[Len(s)])

IsDigits(s) == Len(s) > 0 /\ \A i \in 1..Len(s) : s[i] \in DigitSet

\* int(s): surrounding whitespace and one sign are accepted, then decimal digits;
\* anything else raises ValueError ([ok |-> FALSE])
ParseInt(s) ==
    LET t == Strip(s)
        signed == Len(t) > 0 /\ t[1] \in {"+", "-"}
        body == IF signed THEN Tail(t) ELSE t
    IN  IF IsDigits(body)
        THEN [ok |-> TRUE,
              val |-> IF signed /\ t[1] = "-" THEN -DigitsValue(body) ELSE DigitsValue(body)]
        ELSE [ok |-> FALSE, val |-> 0]

\* str(n) for an integer n >= 0
RECURSIVE NatToStr(_)
NatToStr(n) == IF n < 10 THEN <<Digits[n + 1]>>
               ELSE NatToStr(n \div 10) \o <<Digits[(n % 10) + 1]>>

IntToStr(n) == IF n < 0 THEN <<"-">> \o NatToStr(-n) ELSE NatToStr(n)

\* f"{n:04d}" for n >= 0
RECURSIVE ZeroPad(_, _)
ZeroPad(s, width) == IF Len(s) >= width THEN s ELSE ZeroPad(<<"0">> \o s, width)

-----------------------------------------------------------------------------
(* src/app/models.py *)

\* Annotation(slab_id, label_id, label_name, x, y) with the dataclass defaults
Annotation(slab_id, label_id, label_name, x, y) ==
    [slab_id |-> slab_id, label_id |-> label_id, label_name |-> label_name,
     x |-> x, y |-> y,
     size |-> <<"R", "e", "g", "u", "l", "a", "r">>,
     tripping_hazard |-> <<"N", "o">>,
     surface_type |-> <<"C", "o", "n", "c", "r", "e", "t", "e">>,
     notes |-> <<>>, running_slope |-> <<>>, cross_slope |-> <<>>,
     latitude |-> <<>>, longitude |-> <<>>, technician |-> <<>>,
     ramp |-> <<"N", "o">>, utility_present |-> <<"N", "o">>,
     subslab |-> <<"0", "0", "0", "0">>]

-----------------------------------------------------------------------------
(* src/app/utils.py *)

\* the loop body of next_slab_sequence: the running maximum after one item
SlabSeqStep(max_seq, item, prefix) ==
    IF ~StartsWith(item.slab_id, prefix) THEN max_seq
    ELSE LET parts == Split(item.slab_id, "-")
         IN  IF Len(parts) < 3 THEN max_seq
             ELSE LET seq == ParseInt(parts[2])
                  IN  IF ~seq.ok THEN max_seq
                      ELSE IF seq.val > max_seq THEN seq.val ELSE max_seq

RECURSIVE SlabSeqLoop(_, _, _)
SlabSeqLoop(max_seq, annotations, prefix) ==
    IF annotations = <<>> THEN max_seq
    ELSE SlabSeqLoop(SlabSeqStep(max_seq, Head(annotations), prefix),
                     Tail(annotations), prefix)

next_slab_sequence(annotations, segment_name) ==
    SlabSeqLoop(0, annotations, segment_name \o <<"-">>) + 1

build_slab_id(segment_name, sequence, subslab) ==
    segment_name \o <<"-">> \o ZeroPad(NatToStr(sequence), 4) \o <<"-">> \o subslab

-----------------------------------------------------------------------------
(* More string operations *)

UpperCase == <<"A", "B", "C", "D", "E", "F", "G", "H", "I", "J", "K", "L", "M", 
               "N", "O", "P", "Q", "R", "S", "T", "U", "V", "W", "X", "Y", "Z">>
LowerCase == <<"a", "b", "c", "d", "e", "f", "g", "h", "i", "j", "k", "l", "m", 
               "n", "o", "p", "q", "r", "s", "t", "u", "v", "w", "x", "y", "z">>

\* str.lower() on the letters of the model's alphabet
LowerChar(c) == IF \E i \in 1..Len(UpperCase) : UpperCase[i] = c
                THEN LowerCase[CHOOSE i \in 1..Len(UpperCase) : UpperCase[i] = c]
                ELSE c
Lower(s) == [i \in 1..Len(s) |-> LowerChar(s[i])]

\* sub in s
Contains(s, sub) ==
    \E i \in 1..(Len(s) - Len(sub) + 1) : SubSeq(s, i, i + Len(sub) - 1) = sub

\* the digits of the fraction rem/d (0 <= rem < d) to `places` places, truncated,
\* paired with the remainder that is left
RECURSIVE FracDigits(_, _, _)
FracDigits(rem, d, places) ==
    IF places = 0 THEN [digits |-> <<>>, rem |-> rem]
    ELSE LET rest == FracDigits((rem * 10) % d, d, places - 1)
         IN  [digits |-> <<Digits[((rem * 10) \div d) + 1]>> \o rest.digits,
              rem |-> rest.rem]

\* a digit string plus one, as a digit string of the same or one more length
RECURSIVE IncDigits(_)
IncDigits(s) ==
    IF s = <<>> THEN <<"1">>
    ELSE IF s[Len(s)] # "9"
         THEN SubSeq(s, 1, Len(s) - 1) \o <<Digits[DigitVal(s[Len(s)]) + 2]>>
         ELSE IncDigits(SubSeq(s, 1, Len(s) - 1)) \o <<"0">>

\* f"{q:.<places>f}" of a rational q
FormatFixed(q, places) ==
    LET n == Abs(q[1])
        d == q[2]
        ip == NatToStr(n \div d)
        fr == FracDigits(n % d, d, places)
        all == ip \o fr.digits
        last == IF all[Len(all)] \in DigitSet THEN DigitVal(all[Len(all)]) ELSE 0
        up == 2 * fr.rem > d \/ (2 * fr.rem = d /\ last % 2 = 1)
        rounded == IF up THEN IncDigits(all) ELSE all
        int_len == Len(rounded) - places
        body == IF places = 0 THEN rounded
                ELSE SubSeq(rounded, 1, int_len) \o <<".">>
                     \o SubSeq(rounded, int_len + 1, Len(rounded))
    IN  IF q[1] < 0 THEN <<"-">> \o body ELSE body

\* float("nan"): not a number, the one float that is no rational
NaN == <<0, 0>>

\* float(s) on plain decimal literals: surrounding whitespace, one sign, digits with
\* at most one point and at least one digit; the literal nan is accepted as well
ParseFloat(s) ==
    LET t == Strip(s)
        signed == Len(t) > 0 /\ t[1] \in {"+", "-"}
        body == IF signed THEN Tail(t) ELSE t
        parts == Split(body, ".")
        ipart == parts[1]
        fpart == IF Len(parts) = 2 THEN parts[2] ELSE <<>>
        wellformed == /\ Len(parts) <= 2
                      /\ \A i \in 1..Len(body) : body[i] \in DigitSet \cup {"."}
                      /\ Len(ipart) + Len(fpart) > 0
        scale == IF Len(fpart) = 0 THEN 1 ELSE DigitsValue(<<"1">> \o [i \in 1..Len(fpart) |-> "0"])
        mag == Rat(DigitsValue(ipart) * scale + DigitsValue(fpart), scale)
    IN  IF Lower(body) = <<"n", "a", "n">> THEN [ok |-> TRUE, val |-> NaN]
        ELSE IF wellformed
             THEN [ok |-> TRUE, val |-> IF signed /\ t[1] = "-" THEN RNeg(mag) ELSE mag]
             ELSE [ok |-> FALSE, val |-> <<0, 1>>]

-----------------------------------------------------------------------------
(* src/app/gui.py: labels, classification, score *)

\* next((item for item in labels if item.id == label_id), None)
FirstLabelWithId(ls, label_id) ==
    IF \E i \in 1..Len(ls) : ls[i].id = label_id
    THEN ls[CHOOSE i \in 1..Len(ls) :
                /\ ls[i].id = label_id
                /\ \A j \in 1..(i - 1) : ls[j].id # label_id]
    ELSE NoneV

_selected_label(ls, sel) ==
    IF sel = NoneV THEN NoneV ELSE FirstLabelWithId(ls, sel[1])

NotASidewalk == <<"n", "o", "t", " ", "a", " ", "s", "i", "d", "e", "w", "a", "l", "k">>

_is_not_sidewalk_label(label) ==
    IF label = NoneV THEN FALSE
    ELSE LET label_name == Lower(Strip(label.name))
         IN  label_name = NotASidewalk \/ Contains(label_name, NotASidewalk)

\* a variant: only the catalog label of the annotation is looked at
_is_not_sidewalk_annotation_CatalogOnly(annotation, ls) ==
    _is_not_sidewalk_label(FirstLabelWithId(ls, annotation.label_id))

_is_not_sidewalk_annotation(annotation, ls) ==
    IF _is_not_sidewalk_label(FirstLabelWithId(ls, annotation.label_id)) THEN TRUE
    ELSE LET annotation_name == Lower(Strip(annotation.label_name))
         IN  annotation_name = NotASidewalk \/ Contains(annotation_name, NotASidewalk)

\* id_to_name.get(item.label_id, item.label_name.lower()) with
\* id_to_name = {label.id: label.name.lower() for label in self.labels}:
\* a later label of the same id overwrites an earlier one
ResolvedName(item, ls) ==
    IF \E i \in 1..Len(ls) : ls[i].id = item.label_id
    THEN Lower(ls[CHOOSE i \in 1..Len(ls) :
                      /\ ls[i].id = item.label_id
                      /\ \A j \in (i + 1)..Len(ls) : ls[j].id # item.label_id].name)
    ELSE Lower(item.label_name)

\* the if/elif chain of _update_counter
ScoreClass(name) ==
    IF Contains(name, <<"g", "o", "o", "d">>) THEN "green"
    ELSE IF Contains(name, <<"m", "i", "n", "o", "r">>) THEN "yellow"
    ELSE IF Contains(name, <<"m", "o", "d", "e", "r", "a", "t", "e">>) THEN "orange"
    ELSE IF Contains(name, <<"s", "e", "v", "e", "r", "e">>) THEN "red"
    ELSE "none"

\* the counting loop of _update_counter over slab_annotations
RECURSIVE CountLoop(_, _, _)
CountLoop(totals, items, ls) ==
    IF items = <<>> THEN totals
    ELSE LET cls == ScoreClass(ResolvedName(Head(items), ls))
             next == IF cls = "none" THEN totals
                     ELSE [totals EXCEPT ![cls] = @ + 1]
         IN  CountLoop(next, Tail(items), ls)

\* the weights 0.7 and 0.3 of the score
WeightMinor == <<7, 10>>
WeightModerate == <<3, 10>>

\* variant: severe defects do not scale the score down
ScoreOf_NoPenalty(t, slab_total) ==
    IF slab_total > 0
    THEN RMax(RInt(0), RMin(RInt(100),
             RMul(RDiv(RAdd(RAdd(RInt(t.green), RMul(WeightMinor, RInt(t.yellow))),
                            RMul(WeightModerate, RInt(t.orange))),
                       RInt(slab_total)),
                  RInt(100))))
    ELSE RInt(0)

\* score of _update_counter, from the four totals and slab_total
ScoreOf(t, slab_total) ==
    IF slab_total > 0
    THEN LET raw == RMul(RDiv(RAdd(RAdd(RInt(t.green), RMul(WeightMinor, RInt(t.yellow))),
                                   RMul(WeightModerate, RInt(t.orange))),
                              RInt(slab_total)),
                         RInt(100))
             pen == RMul(raw, RSub(RInt(1), RDiv(RInt(t.red), RInt(slab_total))))
         IN  RMax(RInt(0), RMin(RInt(100), pen))
    ELSE RInt(0)

\* what _update_counter shows: the score text and the counter window content
_update_counter(anns, ls) ==
    LET slab_annotations == SelectSeq(anns, LAMBDA item : ~_is_not_sidewalk_annotation(item, ls))
        slab_total == Len(slab_annotations)
        t == CountLoop([green |-> 0, yellow |-> 0, orange |-> 0, red |-> 0],
                       slab_annotations, ls)
        score == ScoreOf(t, slab_total)
    IN  [score_var |-> [score |-> score, text |-> FormatFixed(score, 2)],
         counter |-> [slab_total |-> slab_total, green_total |-> t.green,
                      yellow_total |-> t.yellow, orange_total |-> t.orange,
                      red_total |-> t.red, annotations |-> anns]]

-----------------------------------------------------------------------------
(* src/app/annotations_service.py: the annotation record *)

\* the character escapes xml.etree writes in element text and reads back
XmlEscapeChar(c) ==
    IF c = "&" THEN <<"&", "a", "m", "p", ";">> ELSE IF c = "<" THEN <<"&", "l", "t", ";">> ELSE IF c = ">" THEN <<"&", "g", "t", ";">> ELSE <<c>>

RECURSIVE XmlEscape(_)
XmlEscape(t) == IF t = <<>> THEN <<>> ELSE XmlEscapeChar(Head(t)) \o XmlEscape(Tail(t))

\* a variant: element text is taken as serialized, without resolving the escapes
XmlUnescape_Raw(t) == t

RECURSIVE XmlUnescape(_)
XmlUnescape(t) ==
    IF t = <<>> THEN <<>>
    ELSE IF StartsWith(t, <<"&", "a", "m", "p", ";">>) THEN <<"&">> \o XmlUnescape(SubSeq(t, Len(<<"&", "a", "m", "p", ";">>) + 1, Len(t)))
    ELSE IF StartsWith(t, <<"&", "l", "t", ";">>) THEN <<"<">> \o XmlUnescape(SubSeq(t, Len(<<"&", "l", "t", ";">>) + 1, Len(t)))
    ELSE IF StartsWith(t, <<"&", "g", "t", ";">>) THEN <<">">> \o XmlUnescape(SubSeq(t, Len(<<"&", "g", "t", ";">>) + 1, Len(t)))
    ELSE <<Head(t)>> \o XmlUnescape(Tail(t))

\* the number of decimal places of the rational with denominator d, when its
\* decimal expansion ends within MaxReprPlaces places
MaxReprPlaces == 8
RECURSIVE DecimalPlaces(_, _)
DecimalPlaces(d, k) ==
    IF k >= MaxReprPlaces \/ DigitsValue(<<"1">> \o [i \in 1..k |-> "0"]) % d = 0 THEN k
    ELSE DecimalPlaces(d, k + 1)

\* str(x) of a float x whose decimal expansion is finite: the shortest literal
\* that reads back as x, with at least one digit after the point
FloatRepr(q) ==
    LET k == DecimalPlaces(q[2], 0)
    IN  FormatFixed(q, IF k = 0 THEN 1 ELSE k)

\* the child elements of an <Annotation> node, in the order they are written
RecordTags == <<"SlabID", "LabelID", "LabelName", "X", "Y", "Severity", "Size",
                "TrippingHazard", "SurfaceType", "Notes", "RunningSlope", "CrossSlope",
                "Latitude", "Longitude", "Technician", "Ramp", "UtilityPresent", "Subslab">>

\* the text save_annotations_xml gives the child `tag` of the node of `item`
NodeText(item, tag) ==
    CASE tag = "SlabID" -> item.slab_id
      [] tag = "LabelID" -> IntToStr(item.label_id)
      [] tag = "LabelName" -> item.label_name
      [] tag = "X" -> FloatRepr(item.x)
      [] tag = "Y" -> FloatRepr(item.y)
      [] tag = "Severity" -> IntToStr(item.label_id)
      [] tag = "Size" -> item.size
      [] tag = "TrippingHazard" -> item.tripping_hazard
      [] tag = "SurfaceType" -> item.surface_type
      [] tag = "Notes" -> item.notes
      [] tag = "RunningSlope" -> item.running_slope
      [] tag = "CrossSlope" -> item.cross_slope
      [] tag = "Latitude" -> item.latitude
      [] tag = "Longitude" -> item.longitude
      [] tag = "Technician" -> item.technician
      [] tag = "Ramp" -> item.ramp
      [] tag = "UtilityPresent" -> item.utility_present
      [] tag = "Subslab" -> item.subslab

\* save_annotations_xml: the file written for doc. A file is its root attributes
\* and, per <Annotation> node, the serialized text of each child element
save_annotations_xml(doc) ==
    [wellformed |-> TRUE,
     image |-> XmlEscape(doc.image_name),
     width |-> IntToStr(doc.image_width),
     height |-> IntToStr(doc.image_height),
     nodes |-> [i \in 1..Len(doc.annotations) |->
                   [tag \in {RecordTags[k] : k \in 1..Len(RecordTags)} |->
                       XmlEscape(NodeText(doc.annotations[i], tag))]]]

\* (node.findtext(tag) or default).strip(): a missing child and an empty one both
\* give the default
FindText(node, tag, default) ==
    LET text == IF tag \in DOMAIN node THEN XmlUnescape(node[tag]) ELSE <<>>
    IN  Strip(IF text = <<>> THEN default ELSE text)

\* the Annotation load_annotations_xml builds from one node, when every number parses
NodeAnnotation(node) ==
    [slab_id |-> FindText(node, "SlabID", <<>>),
     label_id |-> ParseInt(FindText(node, "LabelID", <<"0">>)).val,
     label_name |-> FindText(node, "LabelName", <<>>),
     x |-> ParseFloat(FindText(node, "X", <<"0">>)).val,
     y |-> ParseFloat(FindText(node, "Y", <<"0">>)).val,
     size |-> FindText(node, "Size", <<"R", "e", "g", "u", "l", "a", "r">>),
     tripping_hazard |-> FindText(node, "TrippingHazard", <<"N", "o">>),
     surface_type |-> FindText(node, "SurfaceType", <<"C", "o", "n", "c", "r", "e", "t", "e">>),
     notes |-> FindText(node, "Notes", <<>>),
     running_slope |-> FindText(node, "RunningSlope", <<>>),
     cross_slope |-> FindText(node, "CrossSlope", <<>>),
     latitude |-> FindText(node, "Latitude", <<>>),
     longitude |-> FindText(node, "Longitude", <<>>),
     technician |-> FindText(node, "Technician", <<>>),
     ramp |-> FindText(node, "Ramp", <<"N", "o">>),
     utility_present |-> FindText(node, "UtilityPresent", <<"N", "o">>),
     subslab |-> FindText(node, "Subslab", <<"0", "0", "0", "0">>)]

\* int() / float() of the node's numbers succeed
NodeParses(node) ==
    /\ ParseInt(FindText(node, "LabelID", <<"0">>)).ok
    /\ ParseFloat(FindText(node, "X", <<"0">>)).ok
    /\ ParseFloat(FindText(node, "Y", <<"0">>)).ok

\* a variant: a node whose numbers do not parse is skipped and the rest is returned
load_annotations_xml_SkipBad(file) ==
    IF file.wellformed /\ ParseInt(file.width).ok /\ ParseInt(file.height).ok
    THEN LET kept == SelectSeq(file.nodes, NodeParses)
         IN  [ok |-> TRUE,
              doc |-> [image_name |-> XmlUnescape(file.image),
                       image_width |-> ParseInt(file.width).val,
                       image_height |-> ParseInt(file.height).val,
                       annotations |-> [i \in 1..Len(kept) |-> NodeAnnotation(kept[i])]]]
    ELSE [ok |-> FALSE, doc |-> NoneV]

\* load_annotations_xml: the document read from file, or a raised exception
load_annotations_xml(file) ==
    IF /\ file.wellformed
       /\ ParseInt(file.width).ok
       /\ ParseInt(file.height).ok
       /\ \A i \in 1..Len(file.nodes) : NodeParses(file.nodes[i])
    THEN [ok |-> TRUE,
          doc |-> [image_name |-> XmlUnescape(file.image),
                   image_width |-> ParseInt(file.width).val,
                   image_height |-> ParseInt(file.height).val,
                   annotations |-> [i \in 1..Len(file.nodes) |->
                                       NodeAnnotation(file.nodes[i])]]]
    ELSE [ok |-> FALSE, doc |-> NoneV]

-----------------------------------------------------------------------------
(* The session: the fields of SidewalkAnnotationApp as one record *)

Cur ==
    [labels |-> labels, selected_label_id |-> selected_label_id,
     Transformer |-> Transformer, xml_files |-> xml_files,
     image_paths |-> image_paths, image_index |-> image_index,
     current_image_path |-> current_image_path, current_image |-> current_image,
     current_georef_bounds |-> current_georef_bounds,
     current_geo_affine |-> current_geo_affine, current_geo_epsg |-> current_geo_epsg,
     current_to_wgs84_transformer |-> current_to_wgs84_transformer,
     current_annotations |-> current_annotations,
     zoom |-> zoom, view_x |-> view_x, view_y |-> view_y, canvas |-> canvas,
     last_drag |-> last_drag, show_annotations_var |-> show_annotations_var,
     icon_cache |-> icon_cache, hq_render_job |-> hq_render_job, tk_after |-> tk_after,
     score_var |-> score_var, counter |-> counter, kmz_file |-> kmz_file,
     key_bindings |-> key_bindings,
     dialog |-> dialog]

\* the session after a handler has run
Becomes(s) ==
    /\ labels' = s.labels
    /\ selected_label_id' = s.selected_label_id
    /\ Transformer' = s.Transformer
    /\ xml_files' = s.xml_files
    /\ image_paths' = s.image_paths
    /\ image_index' = s.image_index
    /\ current_image_path' = s.current_image_path
    /\ current_image' = s.current_image
    /\ current_georef_bounds' = s.current_georef_bounds
    /\ current_geo_affine' = s.current_geo_affine
    /\ current_geo_epsg' = s.current_geo_epsg
    /\ current_to_wgs84_transformer' = s.current_to_wgs84_transformer
    /\ current_annotations' = s.current_annotations
    /\ zoom' = s.zoom
    /\ view_x' = s.view_x
    /\ view_y' = s.view_y
    /\ canvas' = s.canvas
    /\ last_drag' = s.last_drag
    /\ show_annotations_var' = s.show_annotations_var
    /\ icon_cache' = s.icon_cache
    /\ hq_render_job' = s.hq_render_job
    /\ tk_after' = s.tk_after
    /\ score_var' = s.score_var
    /\ counter' = s.counter
    /\ kmz_file' = s.kmz_file
    /\ key_bindings' = s.key_bindings
    /\ dialog' = s.dialog

-----------------------------------------------------------------------------
(* src/app/gui.py: georeferencing of a pixel *)

\* the reference-system code that needs no conversion
EPSG_WGS84 == 4326

\* Transformer.transform(x_geo, y_geo) of the converter built for a projected
\* system (always_xy): the library's conversion, here a projection whose unit is
\* 1/units_per_degree of a degree; it returns (lon, lat)
TransformerTransform(t, x_geo, y_geo) ==
    <<RDiv(x_geo, RInt(t.units_per_degree)), RDiv(y_geo, RInt(t.units_per_degree))>>

\* the affine output of a pixel, (x_geo, y_geo)
AffineOutput(s, pixel_x, pixel_y) ==
    LET a == s.current_geo_affine[1]
        b == s.current_geo_affine[2]
        c == s.current_geo_affine[3]
        d == s.current_geo_affine[4]
        e == s.current_geo_affine[5]
        f == s.current_geo_affine[6]
    IN  <<RAdd(RAdd(RMul(a, pixel_x), RMul(b, pixel_y)), c),
          RAdd(RAdd(RMul(d, pixel_x), RMul(e, pixel_y)), f)>>

\* variant: the pair is returned as (x_geo, y_geo), without the axis swap
_pixel_to_latlon_NoSwap(s, pixel_x, pixel_y, raises) ==
    IF s.current_geo_affine = NoneV THEN NoneV
    ELSE LET xy == AffineOutput(s, pixel_x, pixel_y)
         IN  IF s.current_geo_epsg = NoneV \/ s.current_geo_epsg = Some(4326)
             THEN xy
             ELSE IF s.current_to_wgs84_transformer # NoneV /\ ~raises
                  THEN <<RDiv(xy[1], RInt(s.current_to_wgs84_transformer.units_per_degree)),
                         RDiv(xy[2], RInt(s.current_to_wgs84_transformer.units_per_degree))>>
                  ELSE NoneV

\* variant: a known code without a converter falls back to the affine output
_pixel_to_latlon_Fallback(s, pixel_x, pixel_y, raises) ==
    IF s.current_geo_affine = NoneV THEN NoneV
    ELSE LET xy == AffineOutput(s, pixel_x, pixel_y)
         IN  IF s.current_geo_epsg = NoneV \/ s.current_geo_epsg = Some(4326)
                \/ s.current_to_wgs84_transformer = NoneV
             THEN <<xy[2], xy[1]>>
             ELSE IF raises THEN NoneV
                  ELSE <<RDiv(xy[2], RInt(s.current_to_wgs84_transformer.units_per_degree)),
                         RDiv(xy[1], RInt(s.current_to_wgs84_transformer.units_per_degree))>>

\* _pixel_to_latlon; `raises` says whether the converter's transform raises
_pixel_to_latlon(s, pixel_x, pixel_y, raises) ==
    IF s.current_geo_affine = NoneV THEN NoneV
    ELSE LET a == s.current_geo_affine[1]
             b == s.current_geo_affine[2]
             c == s.current_geo_affine[3]
             d == s.current_geo_affine[4]
             e == s.current_geo_affine[5]
             f == s.current_geo_affine[6]
             x_geo == RAdd(RAdd(RMul(a, pixel_x), RMul(b, pixel_y)), c)
             y_geo == RAdd(RAdd(RMul(d, pixel_x), RMul(e, pixel_y)), f)
         IN  IF s.current_geo_epsg = NoneV \/ s.current_geo_epsg = Some(EPSG_WGS84)
             THEN <<y_geo, x_geo>>
             ELSE IF s.current_to_wgs84_transformer # NoneV
                  THEN IF raises THEN NoneV
                       ELSE LET lonlat == TransformerTransform(
                                              s.current_to_wgs84_transformer, x_geo, y_geo)
                            IN  <<lonlat[2], lonlat[1]>>
                  ELSE NoneV

-----------------------------------------------------------------------------
(* src/app/gui.py: icons, rendering, the deferred high-quality render *)

\* the files of the icons directory, and those among them PIL cannot open
IconFiles == {<<"good", "bmp">>, <<"minor", "png">>, <<"severe", "bmp">>,
              <<"not_a_sidewalk", "bmp">>}
CorruptIconFiles == {<<"severe", "bmp">>}

\* resolve_icon_path: the icon as named, then its stem with .bmp/.png/.BMP/.PNG
resolve_icon_path(icon) ==
    LET candidates == IF icon[1] = "" THEN <<>>
                      ELSE <<icon, <<icon[1], "bmp">>, <<icon[1], "png">>,
                             <<icon[1], "BMP">>, <<icon[1], "PNG">>>>
    IN  IF \E i \in 1..Len(candidates) : candidates[i] \in IconFiles
        THEN candidates[CHOOSE i \in 1..Len(candidates) :
                            /\ candidates[i] \in IconFiles
                            /\ \A j \in 1..(i - 1) : candidates[j] \notin IconFiles]
        ELSE NoneV

\* _icon_for_label: the icon cache after the lookup of label_id
IconCacheAfter(cache, ls, label_id) ==
    IF label_id \in DOMAIN cache THEN cache
    ELSE LET label == FirstLabelWithId(ls, label_id)
         IN  IF label = NoneV THEN cache
             ELSE LET icon_path == resolve_icon_path(label.icon)
                  IN  IF icon_path = NoneV \/ icon_path \in CorruptIconFiles THEN cache
                      ELSE [k \in DOMAIN cache \cup {label_id} |->
                               IF k = label_id THEN icon_path ELSE cache[k]]

\* _icon_for_label: the bitmap returned (NoneV: no icon)
_icon_for_label(cache, ls, label_id) ==
    LET after == IconCacheAfter(cache, ls, label_id)
    IN  IF label_id \in DOMAIN after THEN after[label_id] ELSE NoneV

\* the margin around the canvas within which an annotation is still drawn
DrawMargin == 256

\* the annotation loop of redraw: the icon cache after the visible ones are drawn
RECURSIVE DrawLoop(_, _, _)
DrawLoop(cache, items, s) ==
    IF items = <<>> THEN cache
    ELSE LET item == Head(items)
             x == RMul(RSub(item.x, s.view_x), s.zoom)
             y == RMul(RSub(item.y, s.view_y), s.zoom)
             off == \/ RLt(x, RInt(-DrawMargin)) \/ RLt(y, RInt(-DrawMargin))
                    \/ RLt(RInt(s.canvas[1] + DrawMargin), x)
                    \/ RLt(RInt(s.canvas[2] + DrawMargin), y)
         IN  DrawLoop(IF off THEN cache ELSE IconCacheAfter(cache, s.labels, item.label_id),
                      Tail(items), s)

\* a variant: an image smaller than the visible span is pinned to the origin
ClampPan_NoCentre(view, visible, img_dim) ==
    IF RLe(RInt(img_dim), visible) THEN RInt(0)
    ELSE RMin(RMax(view, RInt(0)), RSub(RInt(img_dim), visible))

\* the pan clamp of redraw on one axis
ClampPan(view, visible, img_dim) ==
    IF RLe(RInt(img_dim), visible)
    THEN RNeg(RDiv(RSub(visible, RInt(img_dim)), RInt(2)))
    ELSE RMin(RMax(view, RInt(0)), RSub(RInt(img_dim), visible))

\* root.after(90, self._run_hq_render): a handle no pending callback carries
NewAfterId(pending) == CHOOSE n \in 1..(Cardinality(pending) + 1) : n \notin pending

\* a variant: the job in the slot is not cancelled before the new one is scheduled
_schedule_hq_render_NoCancel(s) ==
    LET job == NewAfterId(s.tk_after)
    IN  [s EXCEPT !.tk_after = @ \cup {job}, !.hq_render_job = Some(job)]

_schedule_hq_render(s) ==
    LET left == IF s.hq_render_job # NoneV THEN s.tk_after \ {s.hq_render_job[1]}
                ELSE s.tk_after
        job == NewAfterId(left)
    IN  [s EXCEPT !.tk_after = left \cup {job}, !.hq_render_job = Some(job)]

redraw(s, preview) ==
    IF s.current_image = NoneV THEN s
    ELSE LET img_w == s.current_image.size[1]
             img_h == s.current_image.size[2]
             canvas_w == IF s.canvas[1] > 1 THEN s.canvas[1] ELSE 1
             canvas_h == IF s.canvas[2] > 1 THEN s.canvas[2] ELSE 1
             visible_w == RDiv(RInt(canvas_w), s.zoom)
             visible_h == RDiv(RInt(canvas_h), s.zoom)
             panned == [s EXCEPT !.view_x = ClampPan(s.view_x, visible_w, img_w),
                                 !.view_y = ClampPan(s.view_y, visible_h, img_h)]
             drawn == IF s.show_annotations_var
                      THEN [panned EXCEPT !.icon_cache =
                               DrawLoop(s.icon_cache, s.current_annotations, panned)]
                      ELSE panned
         IN  IF preview THEN _schedule_hq_render(drawn) ELSE drawn

\* a variant: the timer callback renders a preview, which schedules a job again
_run_hq_render_Preview(s) ==
    LET t == [s EXCEPT !.hq_render_job = NoneV]
    IN  IF t.current_image = NoneV THEN t ELSE redraw(t, TRUE)

_run_hq_render(s) ==
    LET t == [s EXCEPT !.hq_render_job = NoneV]
    IN  IF t.current_image = NoneV THEN t ELSE redraw(t, FALSE)

UpdateCounter(s) ==
    LET u == _update_counter(s.current_annotations, s.labels)
    IN  [s EXCEPT !.score_var = u.score_var, !.counter = u.counter]

-----------------------------------------------------------------------------
(* src/app/gui.py: loading an image and its georeference *)

\* the loop of _extract_epsg_from_geotiff from entry idx on (0-based), over the
\* 1-based sequence values; found = <<projected_epsg, geographic_epsg>>
GeoKeyProjected == 3072
GeoKeyGeographic == 2048

RECURSIVE GeoKeyLoop(_, _, _, _)
GeoKeyLoop(values, idx, num_keys, found) ==
    LET offset == 4 + (idx * 4)
    IN  IF idx >= num_keys \/ offset + 3 >= Len(values) THEN found
        ELSE LET key_id == values[offset + 1]
                 tiff_tag_location == values[offset + 2]
                 count == values[offset + 3]
                 value_offset == values[offset + 4]
             IN  IF tiff_tag_location # 0 \/ count # 1
                 THEN GeoKeyLoop(values, idx + 1, num_keys, found)
                 ELSE IF key_id = GeoKeyProjected
                 THEN GeoKeyLoop(values, idx + 1, num_keys, <<Some(value_offset), found[2]>>)
                 ELSE IF key_id = GeoKeyGeographic
                 THEN GeoKeyLoop(values, idx + 1, num_keys, <<found[1], Some(value_offset)>>)
                 ELSE GeoKeyLoop(values, idx + 1, num_keys, found)

\* a variant: the first projected or geographic entry decides, in-line or not
_extract_epsg_from_geotiff_AnyLocation(ifd) ==
    LET values == ifd.t34735
        read == {idx \in 0..((Len(values) \div 4) - 2) :
                    /\ idx < values[4]
                    /\ values[5 + 4 * idx] \in {GeoKeyProjected, GeoKeyGeographic}}
    IN  IF Len(values) < 4 \/ read = {} THEN NoneV
        ELSE IF \E idx \in read : values[5 + 4 * idx] = GeoKeyProjected
        THEN Some(values[8 + 4 * (CHOOSE idx \in read :
                                     /\ values[5 + 4 * idx] = GeoKeyProjected
                                     /\ \A o \in read : values[5 + 4 * o] = GeoKeyProjected
                                                             => idx <= o)])
        ELSE Some(values[8 + 4 * (CHOOSE idx \in read : \A o \in read : idx <= o)])

\* an absent tag reads as the empty sequence: ifd.get() gives None, tested by truth
_extract_epsg_from_geotiff(ifd) ==
    LET geokey_dir == ifd.t34735
    IN  IF Len(geokey_dir) < 4 THEN NoneV
        ELSE LET found == GeoKeyLoop(geokey_dir, 0, geokey_dir[4], <<NoneV, NoneV>>)
                 projected_epsg == found[1]
                 geographic_epsg == found[2]
             IN  IF projected_epsg # NoneV /\ projected_epsg[1] > 0 THEN projected_epsg
                 ELSE IF geographic_epsg # NoneV /\ geographic_epsg[1] > 0 THEN geographic_epsg
                 ELSE NoneV

\* a variant: tie points and pixel scale are preferred to the model transform
AffineFromTags_TiepointFirst(ifd) ==
    IF Len(ifd.t33922) >= 6 /\ Len(ifd.t33550) >= 2
    THEN <<ifd.t33550[1], RInt(0),
           RSub(ifd.t33922[4], RMul(ifd.t33922[1], ifd.t33550[1])),
           RInt(0), RNeg(ifd.t33550[2]),
           RAdd(ifd.t33922[5], RMul(ifd.t33922[2], ifd.t33550[2]))>>
    ELSE IF Len(ifd.t34264) >= 16
    THEN <<ifd.t34264[1], ifd.t34264[2], ifd.t34264[4],
           ifd.t34264[5], ifd.t34264[6], ifd.t34264[8]>>
    ELSE NoneV

\* the affine transform _load_geotiff_georeference derives from the tags
AffineFromTags(ifd) ==
    LET m == ifd.t34264
        tiepoints == ifd.t33922
        scales == ifd.t33550
    IN  IF Len(m) >= 16 THEN <<m[1], m[2], m[4], m[5], m[6], m[8]>>
        ELSE IF Len(tiepoints) >= 6 /\ Len(scales) >= 2
        THEN LET i == tiepoints[1]
                 j == tiepoints[2]
                 x == tiepoints[4]
                 y == tiepoints[5]
                 sx == scales[1]
                 sy == scales[2]
             IN  <<sx, RInt(0), RSub(x, RMul(i, sx)), RInt(0), RNeg(sy), RAdd(y, RMul(j, sy))>>
        ELSE NoneV

\* the reference systems Transformer.from_crs can build a converter for, with the
\* unit of each; from_crs raises for any other code
ConvertibleCrs == {32617, 3857}
UnitsPerDegree(code) == IF code = 3857 THEN 4 ELSE 2

\* a variant: when no converter can be built the affine transform is dropped too
_load_geotiff_georeference_DropAffine(s, image) ==
    LET cleared == [s EXCEPT !.current_geo_affine = NoneV, !.current_geo_epsg = NoneV,
                             !.current_to_wgs84_transformer = NoneV]
    IN  IF ~image.has_tags THEN cleared
        ELSE LET epsg == _extract_epsg_from_geotiff(image.tag_v2)
                 built == /\ epsg # NoneV
                          /\ epsg # Some(EPSG_WGS84)
                          /\ s.Transformer
                          /\ epsg[1] \in ConvertibleCrs
             IN  [cleared EXCEPT
                     !.current_geo_affine =
                         IF epsg \in {NoneV, Some(EPSG_WGS84)} \/ built
                         THEN AffineFromTags(image.tag_v2) ELSE NoneV,
                     !.current_geo_epsg = epsg,
                     !.current_to_wgs84_transformer =
                         IF built THEN [units_per_degree |-> UnitsPerDegree(epsg[1])]
                         ELSE NoneV]

_load_geotiff_georeference(s, image) ==
    LET cleared == [s EXCEPT !.current_geo_affine = NoneV, !.current_geo_epsg = NoneV,
                             !.current_to_wgs84_transformer = NoneV]
    IN  IF ~image.has_tags THEN cleared
        ELSE LET epsg == _extract_epsg_from_geotiff(image.tag_v2)
             IN  [cleared EXCEPT
                     !.current_geo_affine = AffineFromTags(image.tag_v2),
                     !.current_geo_epsg = epsg,
                     !.current_to_wgs84_transformer =
                         IF /\ epsg # NoneV
                            /\ epsg # Some(EPSG_WGS84)
                            /\ s.Transformer
                            /\ epsg[1] \in ConvertibleCrs
                         THEN [units_per_degree |-> UnitsPerDegree(epsg[1])]
                         ELSE NoneV]

_reset_view_to_real_size(s) ==
    IF s.current_image = NoneV THEN s
    ELSE LET canvas_w == IF s.canvas[1] > 1 THEN s.canvas[1] ELSE 1
             canvas_h == IF s.canvas[2] > 1 THEN s.canvas[2] ELSE 1
             img_w == s.current_image.size[1]
             img_h == s.current_image.size[2]
         IN  [s EXCEPT !.zoom = RInt(1),
                       !.view_x = RMax(RInt(0), Rat(img_w - canvas_w, 2)),
                       !.view_y = RMax(RInt(0), Rat(img_h - canvas_h, 2))]

_autoload_annotations(s) ==
    IF s.current_image_path = NoneV THEN s
    ELSE LET stem == s.current_image_path.stem
         IN  IF stem \notin DOMAIN s.xml_files THEN s
             ELSE LET loaded == load_annotations_xml(s.xml_files[stem])
                  IN  IF ~loaded.ok THEN [s EXCEPT !.dialog = "Failed to load annotations"]
                      ELSE [s EXCEPT !.current_annotations = loaded.doc.annotations]

\* a variant: the annotation list is not emptied before the record is looked for
_load_current_image_KeepList(s) ==
    IF s.image_index < 0 \/ s.image_index >= Len(s.image_paths) THEN s
    ELSE LET image_path == s.image_paths[s.image_index + 1]
         IN  IF ~image_path.opens THEN [s EXCEPT !.dialog = "Failed to open image"]
             ELSE LET opened == [s EXCEPT !.current_image_path = image_path,
                                          !.current_image = image_path.image,
                                          !.current_georef_bounds = NoneV]
                      georef == _load_geotiff_georeference(opened, image_path.image)
                  IN  redraw(UpdateCounter(_autoload_annotations(
                          _reset_view_to_real_size(georef))), TRUE)

_load_current_image(s) ==
    IF s.image_index < 0 \/ s.image_index >= Len(s.image_paths) THEN s
    ELSE LET image_path == s.image_paths[s.image_index + 1]
         IN  IF ~image_path.opens THEN [s EXCEPT !.dialog = "Failed to open image"]
             ELSE LET opened == [s EXCEPT !.current_image_path = image_path,
                                          !.current_image = image_path.image,
                                          !.current_georef_bounds = NoneV]
                      georef == _load_geotiff_georeference(opened, image_path.image)
                      emptied == [georef EXCEPT !.current_annotations = <<>>]
                  IN  redraw(UpdateCounter(_autoload_annotations(
                          _reset_view_to_real_size(emptied))), TRUE)

load_images(s, files) ==
    IF files = <<>> THEN s
    ELSE _load_current_image([s EXCEPT !.image_paths = files, !.image_index = 0])

next_image(s) ==
    IF s.image_paths = <<>> THEN s
    ELSE IF s.image_index < Len(s.image_paths) - 1
    THEN _load_current_image([s EXCEPT !.image_index = @ + 1])
    ELSE s

prev_image(s) ==
    IF s.image_paths = <<>> THEN s
    ELSE IF s.image_index > 0
    THEN _load_current_image([s EXCEPT !.image_index = @ - 1])
    ELSE s

\* save_annotations: the record is written beside the image
save_annotations(s) ==
    IF s.current_image = NoneV \/ s.current_image_path = NoneV
    THEN [s EXCEPT !.dialog = "Load an image first."]
    ELSE LET doc == [image_name |-> s.current_image_path.stem \o <<".", "t", "i", "f">>,
                     image_width |-> s.current_image.size[1],
                     image_height |-> s.current_image.size[2],
                     annotations |-> s.current_annotations]
             stem == s.current_image_path.stem
         IN  [s EXCEPT !.xml_files =
                 [k \in DOMAIN s.xml_files \cup {stem} |->
                     IF k = stem THEN save_annotations_xml(doc) ELSE s.xml_files[k]]]

\* _select_label_from_ui with label_var holding `value` (0: nothing selected)
_select_label_from_ui(s, value) ==
    [s EXCEPT !.selected_label_id = IF value # 0 THEN Some(value) ELSE NoneV]

\* load_annotations_manual with `file` the record chosen in the dialog (NoneV: the
\* dialog was cancelled)
load_annotations_manual(s, file) ==
    IF s.current_image = NoneV THEN [s EXCEPT !.dialog = "Load an image first."]
    ELSE IF file = NoneV THEN s
    ELSE LET loaded == load_annotations_xml(file)
         IN  IF ~loaded.ok THEN [s EXCEPT !.dialog = "Failed to load annotations"]
             ELSE redraw(UpdateCounter(
                      [s EXCEPT !.current_annotations = loaded.doc.annotations]), TRUE)

-----------------------------------------------------------------------------
(* src/app/gui.py: importing an image from a KMZ archive *)

EndsWith(s, p) == Len(s) >= Len(p) /\ SubSeq(s, Len(s) - Len(p) + 1, Len(s)) = p

\* str.lstrip("/")
RECURSIVE LStripSlash(_)
LStripSlash(s) == IF Len(s) > 0 /\ s[1] = "/" THEN LStripSlash(Tail(s)) ELSE s

\* index of the last "/" of a path, 0 when it has none
LastSlash(p) ==
    IF \A i \in 1..Len(p) : p[i] # "/" THEN 0
    ELSE CHOOSE i \in 1..Len(p) : p[i] = "/" /\ \A j \in (i + 1)..Len(p) : p[j] # "/"

\* posixpath.dirname of a member name (member names do not start with "/")
PosixDirname(p) == IF LastSlash(p) = 0 THEN <<>> ELSE SubSeq(p, 1, LastSlash(p) - 1)

\* Path(p).name
PathName(p) == SubSeq(p, LastSlash(p) + 1, Len(p))

\* posixpath.normpath of a relative path: "", "." dropped, ".." pops a component
RECURSIVE NormParts(_, _)
NormParts(stack, parts) ==
    IF parts = <<>> THEN stack
    ELSE LET part == Head(parts)
         IN  IF part = <<>> \/ part = <<".">> THEN NormParts(stack, Tail(parts))
             ELSE IF part = <<".", ".">> /\ stack # <<>> /\ stack[Len(stack)] # <<".", ".">>
                  THEN NormParts(SubSeq(stack, 1, Len(stack) - 1), Tail(parts))
                  ELSE NormParts(Append(stack, part), Tail(parts))

RECURSIVE JoinSlash(_)
JoinSlash(parts) ==
    IF parts = <<>> THEN <<>>
    ELSE IF Len(parts) = 1 THEN parts[1]
    ELSE parts[1] \o <<"/">> \o JoinSlash(Tail(parts))

PosixNormpath(p) ==
    LET parts == NormParts(<<>>, Split(p, "/"))
    IN  IF parts = <<>> THEN <<".">> ELSE JoinSlash(parts)

\* the floor of an area, 1e-18 in the code: any floor below the smallest positive
\* area of the boxes drawn orders the candidates the same way, and 1/10^6 keeps
\* the densities within the integer range of the model checker
AreaFloor == <<1, 1000000>>
FullCover == <<17, 20>>          \* 0.85
RotationTolerance == <<1, 10000>>

\* _read_float(tag) on a LatLonBox: a missing node or empty text is None
_read_float(latlon_box, tag) ==
    IF latlon_box[tag] = <<>> THEN NoneV
    ELSE IF ParseFloat(latlon_box[tag]).ok THEN ParseFloat(latlon_box[tag]).val
    ELSE NoneV

HttpPrefix == <<"h", "t", "t", "p", ":", "/", "/">>
HttpsPrefix == <<"h", "t", "t", "p", "s", ":", "/", "/">>

\* next((n for n in names if Path(n).name.lower() == href_basename), "")
RECURSIVE FallbackMember(_, _)
FallbackMember(names, href_basename) ==
    IF names = <<>> THEN <<>>
    ELSE IF Lower(PathName(Head(names))) = href_basename THEN Head(names)
    ELSE FallbackMember(Tail(names), href_basename)

InNames(names, member) == \E i \in 1..Len(names) : names[i] = member

\* the archive member an href resolves to, "" when it resolves to none
ImageMember(kmz, kml_name, href) ==
    LET kml_dir == PosixDirname(kml_name)
        stripped == LStripSlash(href)
        image_member == IF kml_dir # <<>>
                        THEN LStripSlash(PosixNormpath(kml_dir \o <<"/">> \o stripped))
                        ELSE stripped
    IN  IF InNames(kmz.names, image_member) THEN image_member
        ELSE FallbackMember(kmz.names, Lower(PathName(href)))

\* the entry appended for an overlay whose box and image were read
OverlayEntry(image_member, size, north, south, east, west, rotation, area) ==
    [image_member |-> image_member, north |-> north, south |-> south,
     east |-> east, west |-> west, rotation |-> rotation,
     width |-> size[1], height |-> size[2], area |-> area,
     pixel_density |-> RDiv(RInt(size[1] * size[2]), area)]

\* area = max(lat_span * lon_span, 1e-18)
BoxArea(north, south, east, west) ==
    RMax(RMul(RAbs(RSub(north, south)), RAbs(RSub(east, west))), AreaFloor)

\* the overlay's entry appended once its href is local and its box is present
BoxStep(entries, kmz, image_member, north, south, east, west, rot) ==
    IF NoneV \in {north, south, east, west} THEN entries
    ELSE IF image_member = <<>> THEN entries
    ELSE IF kmz.images[image_member] = NoneV THEN entries
    ELSE Append(entries,
             OverlayEntry(image_member, kmz.images[image_member],
                          north, south, east, west,
                          IF rot = NoneV THEN RInt(0) ELSE rot,
                          BoxArea(north, south, east, west)))

\* a variant: an http(s) href is not skipped
HrefStep_AllowRemote(entries, kmz, kml_name, href, latlon_box) ==
    IF href = <<>> THEN entries
    ELSE IF latlon_box = NoneV THEN entries
    ELSE BoxStep(entries, kmz, ImageMember(kmz, kml_name, href),
                 _read_float(latlon_box, "north"), _read_float(latlon_box, "south"),
                 _read_float(latlon_box, "east"), _read_float(latlon_box, "west"),
                 _read_float(latlon_box, "rotation"))

HrefStep(entries, kmz, kml_name, href, latlon_box) ==
    IF href = <<>> \/ StartsWith(href, HttpPrefix) \/ StartsWith(href, HttpsPrefix)
    THEN entries
    ELSE IF latlon_box = NoneV THEN entries
    ELSE BoxStep(entries, kmz, ImageMember(kmz, kml_name, href),
                 _read_float(latlon_box, "north"), _read_float(latlon_box, "south"),
                 _read_float(latlon_box, "east"), _read_float(latlon_box, "west"),
                 _read_float(latlon_box, "rotation"))

\* the body of the loop over the ground overlays of one document: the entries
\* with the overlay's entry appended, or unchanged when the overlay is skipped
OverlayStep(entries, kmz, kml_name, ground_overlay) ==
    HrefStep(entries, kmz, kml_name, Strip(ground_overlay.href), ground_overlay.box)

RECURSIVE OverlayLoop(_, _, _, _)
OverlayLoop(entries, kmz, kml_name, overlays) ==
    IF overlays = <<>> THEN entries
    ELSE OverlayLoop(OverlayStep(entries, kmz, kml_name, Head(overlays)),
                     kmz, kml_name, Tail(overlays))

KmlSuffix == <<".", "k", "m", "l">>

\* names that end in ".kml", in archive order
RECURSIVE KmlMembers(_)
KmlMembers(names) ==
    IF names = <<>> THEN <<>>
    ELSE IF EndsWith(Lower(Head(names)), KmlSuffix)
         THEN <<Head(names)>> \o KmlMembers(Tail(names))
         ELSE KmlMembers(Tail(names))

\* the loop over the documents; one that cannot be read or parsed is skipped
RECURSIVE KmlLoop(_, _, _)
KmlLoop(entries, kmz, kml_members) ==
    IF kml_members = <<>> THEN entries
    ELSE IF kmz.docs[Head(kml_members)] = NoneV
         THEN KmlLoop(entries, kmz, Tail(kml_members))
         ELSE KmlLoop(OverlayLoop(entries, kmz, Head(kml_members),
                                  kmz.docs[Head(kml_members)].overlays),
                      kmz, Tail(kml_members))

RECURSIVE MaxOf(_, _)
MaxOf(best, values) ==
    IF values = <<>> THEN best ELSE MaxOf(RMax(best, Head(values)), Tail(values))
RECURSIVE MinOf(_, _)
MinOf(best, values) ==
    IF values = <<>> THEN best ELSE MinOf(RMin(best, Head(values)), Tail(values))

Field(entries, name) == [i \in 1..Len(entries) |-> entries[i][name]]

\* union_area = max((union_north - union_south) * (union_east - union_west), 1e-18)
UnionArea(overlay_entries) ==
    RMax(RMul(RSub(MaxOf(overlay_entries[1].north, Tail(Field(overlay_entries, "north"))),
                   MinOf(overlay_entries[1].south, Tail(Field(overlay_entries, "south")))),
              RSub(MaxOf(overlay_entries[1].east, Tail(Field(overlay_entries, "east"))),
                   MinOf(overlay_entries[1].west, Tail(Field(overlay_entries, "west"))))),
         AreaFloor)

CoverageOver(overlay_entries, union_area) ==
    [i \in 1..Len(overlay_entries) |->
        [image_member |-> overlay_entries[i].image_member,
         north |-> overlay_entries[i].north, south |-> overlay_entries[i].south,
         east |-> overlay_entries[i].east, west |-> overlay_entries[i].west,
         rotation |-> overlay_entries[i].rotation,
         width |-> overlay_entries[i].width, height |-> overlay_entries[i].height,
         area |-> overlay_entries[i].area,
         pixel_density |-> overlay_entries[i].pixel_density,
         coverage_ratio |-> RDiv(overlay_entries[i].area, union_area)]]

\* the entries with their coverage_ratio: area over the area of the union box
WithCoverage(overlay_entries) == CoverageOver(overlay_entries, UnionArea(overlay_entries))

\* the order of tuples (coverage_ratio, pixel_density)
CoverageThenDensityLt(p, q) ==
    \/ RLt(p.coverage_ratio, q.coverage_ratio)
    \/ p.coverage_ratio = q.coverage_ratio /\ RLt(p.pixel_density, q.pixel_density)

DensityLt(p, q) == RLt(p.pixel_density, q.pixel_density)

\* max(items, key=...): the first item no later item exceeds
RECURSIVE MaxByDensity(_, _)
MaxByDensity(best, items) ==
    IF items = <<>> THEN best
    ELSE MaxByDensity(IF DensityLt(best, Head(items)) THEN Head(items) ELSE best,
                      Tail(items))

RECURSIVE MaxByCoverageThenDensity(_, _)
MaxByCoverageThenDensity(best, items) ==
    IF items = <<>> THEN best
    ELSE MaxByCoverageThenDensity(
             IF CoverageThenDensityLt(best, Head(items)) THEN Head(items) ELSE best,
             Tail(items))

IsFullCover(entry) == RLe(FullCover, entry.coverage_ratio)

\* variant: the densest entry is taken whatever its coverage
SelectOverlay_DensestOfAll(overlay_entries) ==
    MaxByDensity(Head(overlay_entries), Tail(overlay_entries))

\* variant: without a full-cover candidate the densest entry is taken
SelectOverlay_DensityFirst(overlay_entries) ==
    LET full_cover_candidates == SelectSeq(overlay_entries, IsFullCover)
    IN  IF full_cover_candidates # <<>>
        THEN MaxByDensity(Head(full_cover_candidates), Tail(full_cover_candidates))
        ELSE MaxByDensity(Head(overlay_entries), Tail(overlay_entries))

\* the selection among the entries (with coverage_ratio), a non-empty list
SelectOverlay(overlay_entries) ==
    LET full_cover_candidates == SelectSeq(overlay_entries, IsFullCover)
    IN  IF full_cover_candidates # <<>>
        THEN MaxByDensity(Head(full_cover_candidates), Tail(full_cover_candidates))
        ELSE MaxByCoverageThenDensity(Head(overlay_entries), Tail(overlay_entries))

\* a variant: the quality warning is shown only beside a full-cover candidate
Loaded_QuietFallback(kmz, overlay_entries, selected) ==
    [raised |-> "",
     warnings |->
         (IF Len(overlay_entries) > 1 /\ IsFullCover(selected)
          THEN <<"KMZ quality">> ELSE <<>>)
         \o (IF RLt(RotationTolerance, RAbs(selected.rotation))
             THEN <<"KMZ rotation">> ELSE <<>>),
     overlay_entries |-> overlay_entries,
     selected |-> selected,
     image |-> [member |-> selected.image_member,
                size |-> kmz.images[selected.image_member]],
     bounds |-> [north |-> selected.north, south |-> selected.south,
                 east |-> selected.east, west |-> selected.west]]

\* what _load_image_from_kmz returns for a selected entry, with the warnings shown
Loaded(kmz, overlay_entries, selected) ==
    [raised |-> "",
     warnings |->
         (IF Len(overlay_entries) > 1 /\ ~IsFullCover(selected)
          THEN <<"KMZ quality">> ELSE <<>>)
         \o (IF RLt(RotationTolerance, RAbs(selected.rotation))
             THEN <<"KMZ rotation">> ELSE <<>>),
     overlay_entries |-> overlay_entries,
     selected |-> selected,
     image |-> [member |-> selected.image_member,
                size |-> kmz.images[selected.image_member]],
     bounds |-> [north |-> selected.north, south |-> selected.south,
                 east |-> selected.east, west |-> selected.west]]

Raised(message) ==
    [raised |-> message, warnings |-> <<>>, overlay_entries |-> <<>>,
     selected |-> NoneV, image |-> NoneV, bounds |-> NoneV]

SelectAndLoad(kmz, overlay_entries) ==
    Loaded(kmz, overlay_entries, SelectOverlay(overlay_entries))

AfterScan(kmz, found) ==
    IF found = <<>>
    THEN Raised("No valid GroundOverlay with local image found in KMZ.")
    ELSE SelectAndLoad(kmz, WithCoverage(found))

\* the result of _load_image_from_kmz: the exception raised ("" for none), the
\* warnings shown, the image and bounds returned; overlay_entries and selected are
\* the locals of the same names
_load_image_from_kmz(kmz) ==
    IF KmlMembers(kmz.names) = <<>>
    THEN Raised("KMZ does not contain a KML document.")
    ELSE AfterScan(kmz, KmlLoop(<<>>, kmz, KmlMembers(kmz.names)))

-----------------------------------------------------------------------------
(* src/app/gui.py: the label catalog *)

\* _load_labels_from_disk: the first enabled label is selected
FirstEnabledId(ls) ==
    IF \E i \in 1..Len(ls) : ls[i].enabled
    THEN Some(ls[CHOOSE i \in 1..Len(ls) :
                     ls[i].enabled /\ \A j \in 1..(i - 1) : ~ls[j].enabled].id)
    ELSE NoneV

\* a variant: the icon cache is kept over the reload
_load_labels_from_disk_KeepCache(s, ls) ==
    [s EXCEPT !.labels = ls, !.selected_label_id = FirstEnabledId(ls)]

\* _load_labels_from_disk with the catalog ls in labels.json
_load_labels_from_disk(s, ls) ==
    [s EXCEPT !.labels = ls, !.selected_label_id = FirstEnabledId(ls),
              !.icon_cache = <<>>]

\* the loop of _bind_shortcuts: every label with a key is bound, enabled or not; a
\* key bound before keeps its handler until a label binds the same key
RECURSIVE BindLoop(_, _)
BindLoop(bindings, ls) ==
    IF ls = <<>> THEN bindings
    ELSE LET label == Head(ls)
         IN  BindLoop(IF label.key = "" THEN bindings
                      ELSE [k \in DOMAIN bindings \cup {label.key} |->
                               IF k = label.key THEN label.id ELSE bindings[k]],
                      Tail(ls))

_bind_shortcuts(s) == [s EXCEPT !.key_bindings = BindLoop(@, s.labels)]

\* the handler of _build_shortcut_handler(label_id): label_var.set, then select
ShortcutHandler(s, label_id) == _select_label_from_ui(s, label_id)

\* _on_labels_saved: the labels dialog has written the catalog ls
_on_labels_saved(s, ls) == redraw(_bind_shortcuts(_load_labels_from_disk(s, ls)), TRUE)

-----------------------------------------------------------------------------
(* src/app/gui.py: KMZ export *)

\* html.escape of one character (quote=True)
HtmlEscapeChar(c) ==
    IF c = "&" THEN <<"&", "a", "m", "p", ";">>
    ELSE IF c = "<" THEN <<"&", "l", "t", ";">>
    ELSE IF c = ">" THEN <<"&", "g", "t", ";">>
    ELSE IF c = "\"" THEN <<"&", "q", "u", "o", "t", ";">>
    ELSE IF c = "'" THEN <<"&", "#", "x", "2", "7", ";">>
    ELSE <<c>>

RECURSIVE HtmlEscape(_)
HtmlEscape(t) == IF t = <<>> THEN <<>> ELSE HtmlEscapeChar(Head(t)) \o HtmlEscape(Tail(t))

\* variant: only the latitude is tried
HasCoordinates_LatitudeOnly(item) == ParseFloat(item.latitude).ok

\* float(item.latitude) and float(item.longitude) both succeed
HasCoordinates(item) == ParseFloat(item.latitude).ok /\ ParseFloat(item.longitude).ok

\* f"{value:.8f}"
FormatCoordinate(value) ==
    IF value = NaN THEN <<"n", "a", "n">> ELSE FormatFixed(value, 8)

\* labels_by_id.get(label_id): the last label of the catalog with that id
LabelById(ls, label_id) ==
    IF \E i \in 1..Len(ls) : ls[i].id = label_id
    THEN ls[CHOOSE i \in 1..Len(ls) :
                /\ ls[i].id = label_id
                /\ \A j \in (i + 1)..Len(ls) : ls[j].id # label_id]
    ELSE NoneV

\* the placemark written for an annotation of the folder of label
Placemark(item, label) ==
    [name |-> HtmlEscape(IF Strip(item.slab_id) # <<>> THEN item.slab_id
                         ELSE label.name \o <<" ", "M", "a", "r", "k", "e", "r">>),
     styleUrl |-> label.id,
     description |->
         [SlabID |-> HtmlEscape(IF item.slab_id # <<>> THEN item.slab_id ELSE <<"-">>),
          Severity |-> HtmlEscape(item.label_name),
          Size |-> HtmlEscape(item.size),
          TrippingHazard |-> HtmlEscape(item.tripping_hazard),
          SurfaceType |-> HtmlEscape(item.surface_type),
          Notes |-> HtmlEscape(item.notes),
          Technician |-> HtmlEscape(item.technician)],
     coordinates |-> <<FormatCoordinate(ParseFloat(item.longitude).val),
                       FormatCoordinate(ParseFloat(item.latitude).val),
                       <<"0">>>>]

\* grouped[label_id]: the georeferenced annotations of that label id, in order
Grouped(georef_annotations, label_id) ==
    SelectSeq(georef_annotations, LAMBDA item : item.label_id = label_id)

\* sorted(grouped.items()): the label ids in ascending order
RECURSIVE SortedIds(_)
SortedIds(ids) ==
    IF ids = {} THEN <<>>
    ELSE LET least == CHOOSE m \in ids : \A n \in ids : m <= n
         IN  <<least>> \o SortedIds(ids \ {least})

\* the folder written for a label of the catalog and its annotations
LabelFolder(label, annotations, has_icon) ==
    [style_id |-> label.id, icon_file |-> label.id, has_icon |-> has_icon,
     name |-> HtmlEscape(label.name),
     placemarks |-> [i \in 1..Len(annotations) |-> Placemark(annotations[i], label)]]

\* the body of the loop over the groups: acc holds the folders written so far
\* and the icon cache
GroupStep(acc, ls, label_id, annotations) ==
    IF LabelById(ls, label_id) = NoneV THEN acc
    ELSE [folders |-> Append(acc.folders,
                         LabelFolder(LabelById(ls, label_id), annotations,
                                     _icon_for_label(acc.icon_cache, ls, label_id) # NoneV)),
          icon_cache |-> IconCacheAfter(acc.icon_cache, ls, label_id)]

RECURSIVE GroupLoop(_, _, _, _)
GroupLoop(acc, ls, label_ids, georef_annotations) ==
    IF label_ids = <<>> THEN acc
    ELSE GroupLoop(GroupStep(acc, ls, Head(label_ids),
                             Grouped(georef_annotations, Head(label_ids))),
                   ls, Tail(label_ids), georef_annotations)

\* the archive written: doc.kml and one icon per folder that has one
WriteKmz(s, output, written) ==
    [s EXCEPT !.icon_cache = written.icon_cache,
              !.kmz_file = [path |-> output,
                            name |-> HtmlEscape(s.current_image_path.stem)
                                     \o <<" ", "A", "n", "n", "o", "t", "a", "t", "i", "o", "n", "s">>,
                            folders |-> written.folders]]

ExportGeoref(s, output, georef_annotations) ==
    IF georef_annotations = <<>> THEN [s EXCEPT !.dialog = "No coordinates"]
    ELSE WriteKmz(s, output,
             GroupLoop([folders |-> <<>>, icon_cache |-> s.icon_cache], s.labels,
                       SortedIds({georef_annotations[i].label_id :
                                     i \in 1..Len(georef_annotations)}),
                       georef_annotations))

\* export_kmz; output is the path chosen in the save dialog, "" when cancelled
export_kmz(s, output) ==
    IF s.current_image_path = NoneV THEN [s EXCEPT !.dialog = "Info"]
    ELSE IF output = "" THEN s
    ELSE ExportGeoref(s, output, SelectSeq(s.current_annotations, HasCoordinates))

-----------------------------------------------------------------------------
(* src/app/gui.py: mouse handlers *)

segment_name_from_path(image_path) == image_path.stem

\* f"{v:.8f}" of a coordinate
CoordPlaces == 8

_on_left_click(s, ex, ey, raises) ==
    IF s.current_image = NoneV \/ s.current_image_path = NoneV THEN s
    ELSE LET selected == _selected_label(s.labels, s.selected_label_id)
         IN  IF selected = NoneV THEN [s EXCEPT !.dialog = "Select a label first."]
             ELSE LET image_x == RAdd(s.view_x, RDiv(RInt(ex), s.zoom))
                      image_y == RAdd(s.view_y, RDiv(RInt(ey), s.zoom))
                      image_w == s.current_image.size[1]
                      image_h == s.current_image.size[2]
                  IN  IF \/ RLt(image_x, RInt(0)) \/ RLt(image_y, RInt(0))
                         \/ RLe(RInt(image_w), image_x) \/ RLe(RInt(image_h), image_y)
                      THEN s
                      ELSE LET segment_name == segment_name_from_path(s.current_image_path)
                               slab_id ==
                                   IF ~_is_not_sidewalk_label(selected)
                                   THEN build_slab_id(
                                            segment_name,
                                            next_slab_sequence(s.current_annotations, segment_name),
                                            <<"0", "0", "0", "0">>)
                                   ELSE <<>>
                               item == Annotation(slab_id, selected.id, selected.name,
                                                  image_x, image_y)
                               latlon == _pixel_to_latlon(s, image_x, image_y, raises)
                               located ==
                                   IF latlon # NoneV
                                   THEN [item EXCEPT
                                            !.latitude = FormatFixed(latlon[1], CoordPlaces),
                                            !.longitude = FormatFixed(latlon[2], CoordPlaces)]
                                   ELSE item
                           IN  redraw(UpdateCounter(
                                   [s EXCEPT !.current_annotations = Append(@, located)]), TRUE)

\* dist_sq of annotation idx to the clicked image point
DistSq(item, image_x, image_y) ==
    LET dx == RSub(item.x, image_x)
        dy == RSub(item.y, image_y)
    IN  RAdd(RMul(dx, dx), RMul(dy, dy))

\* the right-click radius in screen pixels
screen_radius_px == 24

\* s.current_annotations.pop(idx)
Pop(seq, idx) == SubSeq(seq, 1, idx - 1) \o SubSeq(seq, idx + 1, Len(seq))

\* a variant: the nearest annotation is removed however far it is
_on_right_click_AnyDistance(s, ex, ey) ==
    IF s.current_image = NoneV \/ s.current_annotations = <<>> THEN s
    ELSE LET image_x == RAdd(s.view_x, RDiv(RInt(ex), s.zoom))
             image_y == RAdd(s.view_y, RDiv(RInt(ey), s.zoom))
             anns == s.current_annotations
             min_idx == CHOOSE i \in 1..Len(anns) :
                            /\ \A j \in 1..Len(anns) :
                                   RLe(DistSq(anns[i], image_x, image_y),
                                       DistSq(anns[j], image_x, image_y))
                            /\ \A j \in 1..(i - 1) :
                                   RLt(DistSq(anns[i], image_x, image_y),
                                       DistSq(anns[j], image_x, image_y))
         IN  redraw(UpdateCounter(
                 [s EXCEPT !.current_annotations = Pop(@, min_idx)]), TRUE)

_on_right_click(s, ex, ey) ==
    IF s.current_image = NoneV \/ s.current_annotations = <<>> THEN s
    ELSE LET image_x == RAdd(s.view_x, RDiv(RInt(ex), s.zoom))
             image_y == RAdd(s.view_y, RDiv(RInt(ey), s.zoom))
             anns == s.current_annotations
             \* the first index of least distance (the loop replaces on < only)
             min_idx == CHOOSE i \in 1..Len(anns) :
                            /\ \A j \in 1..Len(anns) :
                                   RLe(DistSq(anns[i], image_x, image_y),
                                       DistSq(anns[j], image_x, image_y))
                            /\ \A j \in 1..(i - 1) :
                                   RLt(DistSq(anns[i], image_x, image_y),
                                       DistSq(anns[j], image_x, image_y))
             min_distance_sq == DistSq(anns[min_idx], image_x, image_y)
             radius == RDiv(RInt(screen_radius_px), s.zoom)
             threshold_sq == RMul(radius, radius)
         IN  IF RLe(min_distance_sq, threshold_sq)
             THEN redraw(UpdateCounter(
                      [s EXCEPT !.current_annotations = Pop(@, min_idx)]), TRUE)
             ELSE s

\* self.min_zoom = 0.0001 and self.max_zoom = 12.0
min_zoom == <<1, 10000>>
max_zoom == <<12, 1>>

\* the wheel factors 1.1 and 0.9
WheelIn == <<11, 10>>
WheelOut == <<9, 10>>

\* variant: the point under the cursor is computed with the new zoom
WheelZoom_NewZoomAnchor(s, delta, ex, ey) ==
    [s EXCEPT !.zoom = RMax(min_zoom, RMin(RMul(s.zoom,
                           IF delta > 0 THEN WheelIn ELSE WheelOut), max_zoom))]

\* a variant: the zoom is multiplied and not held to [min_zoom, max_zoom]
WheelZoom_Unclamped(s, delta, ex, ey) ==
    LET new_zoom == RMul(s.zoom, IF delta > 0 THEN WheelIn ELSE WheelOut)
    IN  [s EXCEPT !.zoom = new_zoom,
                  !.view_x = RSub(RAdd(s.view_x, RDiv(RInt(ex), s.zoom)),
                                  RDiv(RInt(ex), new_zoom)),
                  !.view_y = RSub(RAdd(s.view_y, RDiv(RInt(ey), s.zoom)),
                                  RDiv(RInt(ey), new_zoom))]

\* the zoom and pan _on_mousewheel sets before it renders
WheelZoom(s, delta, ex, ey) ==
    LET scale == IF delta > 0 THEN WheelIn ELSE WheelOut
        old_zoom == s.zoom
        new_zoom == RMax(min_zoom, RMin(RMul(s.zoom, scale), max_zoom))
        world_x == RAdd(s.view_x, RDiv(RInt(ex), old_zoom))
        world_y == RAdd(s.view_y, RDiv(RInt(ey), old_zoom))
    IN  [s EXCEPT !.zoom = new_zoom,
                  !.view_x = RSub(world_x, RDiv(RInt(ex), new_zoom)),
                  !.view_y = RSub(world_y, RDiv(RInt(ey), new_zoom))]

_on_mousewheel(s, delta, ex, ey) ==
    IF s.current_image = NoneV THEN s
    ELSE IF WheelZoom(s, delta, ex, ey).zoom = s.zoom THEN s
         ELSE redraw(WheelZoom(s, delta, ex, ey), TRUE)

_start_pan(s, ex, ey) == [s EXCEPT !.last_drag = <<ex, ey>>]

_drag_pan(s, ex, ey) ==
    IF s.current_image = NoneV \/ RLe(s.zoom, RInt(0)) THEN s
    ELSE LET dx == ex - s.last_drag[1]
             dy == ey - s.last_drag[2]
         IN  redraw([s EXCEPT !.last_drag = <<ex, ey>>,
                              !.view_x = RSub(@, RDiv(RInt(dx), s.zoom)),
                              !.view_y = RSub(@, RDiv(RInt(dy), s.zoom))], TRUE)

\* <Configure> on the canvas: the new size is in place when redraw() runs
OnConfigure(s, w, h) == redraw([s EXCEPT !.canvas = <<w, h>>], TRUE)

-----------------------------------------------------------------------------
(* The session after __init__ *)

\* the catalog _ensure_default_labels writes when labels.json is absent
DefaultLabels ==
    <<[id |-> 1, key |-> "1", name |-> <<"G", "o", "o", "d">>, severity_code |-> "1",
       icon |-> <<"good", "bmp">>, enabled |-> TRUE],
      [id |-> 2, key |-> "2", name |-> <<"M", "i", "n", "o", "r">>, severity_code |-> "2",
       icon |-> <<"minor", "bmp">>, enabled |-> TRUE],
      [id |-> 3, key |-> "3", name |-> <<"M", "o", "d", "e", "r", "a", "t", "e">>, severity_code |-> "3",
       icon |-> <<"moderate", "bmp">>, enabled |-> TRUE],
      [id |-> 4, key |-> "4", name |-> <<"S", "e", "v", "e", "r", "e">>, severity_code |-> "4",
       icon |-> <<"severe", "bmp">>, enabled |-> TRUE],
      [id |-> 5, key |-> "5", name |-> <<"N", "o", "t", " ", "a", " ", "S", "i", "d", "e", "w", "a", "l", "k">>, severity_code |-> "0",
       icon |-> <<"not_a_sidewalk", "bmp">>, enabled |-> TRUE]>>

\* the canvas of the 1280x800 window once it is mapped, in model units
CanvasSize == <<6, 4>>

\* SidewalkAnnotationApp.__init__ with the catalog ls on disk and the window shown
Constructed(ls) ==
    [labels |-> ls, selected_label_id |-> FirstEnabledId(ls),
     Transformer |-> TRUE, xml_files |-> <<>>,
     image_paths |-> <<>>, image_index |-> -1,
     current_image_path |-> NoneV, current_image |-> NoneV,
     current_georef_bounds |-> NoneV,
     current_geo_affine |-> NoneV, current_geo_epsg |-> NoneV,
     current_to_wgs84_transformer |-> NoneV,
     current_annotations |-> <<>>,
     zoom |-> <<1, 1>>, view_x |-> <<0, 1>>, view_y |-> <<0, 1>>, canvas |-> CanvasSize,
     last_drag |-> <<0, 0>>, show_annotations_var |-> TRUE,
     icon_cache |-> <<>>, hq_render_job |-> NoneV, tk_after |-> {},
     score_var |-> [score |-> <<0, 1>>, text |-> <<"0", ".", "0", "0">>],
     counter |-> NoneV, kmz_file |-> NoneV, key_bindings |-> BindLoop(<<>>, ls),
     dialog |-> NoDialog]

\* the session is s and no function is being applied in isolation
SessionIs(s) ==
    /\ labels = s.labels
    /\ selected_label_id = s.selected_label_id
    /\ Transformer = s.Transformer
    /\ xml_files = s.xml_files
    /\ image_paths = s.image_paths
    /\ image_index = s.image_index
    /\ current_image_path = s.current_image_path
    /\ current_image = s.current_image
    /\ current_georef_bounds = s.current_georef_bounds
    /\ current_geo_affine = s.current_geo_affine
    /\ current_geo_epsg = s.current_geo_epsg
    /\ current_to_wgs84_transformer = s.current_to_wgs84_transformer
    /\ current_annotations = s.current_annotations
    /\ zoom = s.zoom
    /\ view_x = s.view_x
    /\ view_y = s.view_y
    /\ canvas = s.canvas
    /\ last_drag = s.last_drag
    /\ show_annotations_var = s.show_annotations_var
    /\ icon_cache = s.icon_cache
    /\ hq_render_job = s.hq_render_job
    /\ tk_after = s.tk_after
    /\ score_var = s.score_var
    /\ counter = s.counter
    /\ kmz_file = s.kmz_file
    /\ key_bindings = s.key_bindings
    /\ dialog = s.dialog

session == <<labels, selected_label_id, Transformer, xml_files, image_paths, image_index,
             current_image_path, current_image, current_georef_bounds,
             current_geo_affine, current_geo_epsg, current_to_wgs84_transformer,
             current_annotations, zoom, view_x, view_y, canvas, last_drag,
             show_annotations_var, icon_cache, hq_render_job, tk_after,
             score_var, counter, kmz_file, key_bindings, dialog>>

\* the session a handler starts from: no messagebox raised yet
Now == [Cur EXCEPT !.dialog = NoDialog]

\* sequences over S of length at most n
SeqUpTo(S, n) == UNION {[1..k -> S] : k \in 0..n}

-----------------------------------------------------------------------------
(* SpecSlab: next_slab_sequence applied to annotation lists *)

SlabIds ==
    {<<>>,
     <<"a", "-", "0", "0", "0", "1", "-", "0", "0", "0", "0">>,
     <<"a", "-", "0", "0", "0", "2", "-", "0", "0", "0", "0">>,
     <<"a", "-", "x", "-", "0", "0", "0", "0">>,
     <<"a", "-", "0", "0", "0", "3">>,
     <<"a", "-", "0", "0", "0", "5", "-", "0", "0", "-", "0", "0">>,
     <<"a", "b", "-", "0", "0", "0", "7", "-", "0", "0", "0", "0">>,
     <<"a", "-", "b", "-", "0", "0", "0", "1", "-", "0", "0", "0", "0">>,
     <<"a", "-", "b", "-", "0", "0", "0", "2", "-", "0", "0", "0", "0">>,
     <<"b", "-", "0", "0", "0", "9", "-", "0", "0", "0", "0">>}

SegmentNames == {<<"a">>, <<"a", "-", "b">>}

SlabInit ==
    /\ SessionIs(Constructed(DefaultLabels))
    /\ \E ids \in SeqUpTo(SlabIds, MaxAnn), seg \in SegmentNames :
           arg = [annotations |->
                      [i \in 1..Len(ids) |->
                          Annotation(ids[i], 1, <<"G", "o", "o", "d">>, <<0, 1>>, <<0, 1>>)],
                  segment_name |-> seg]
    /\ ret = NoneV

NextSlabSequenceCall ==
    /\ ret = NoneV
    /\ ret' = Some(next_slab_sequence(arg.annotations, arg.segment_name))
    /\ UNCHANGED <<session, arg>>

SlabNext == NextSlabSequenceCall

SpecSlab == SlabInit /\ [][SlabNext]_vars

\* an identifier of the form segment-<sequence>-<subslab> with a numeric sequence
SlabParts(id, seg) == Split(SubSeq(id, Len(seg) + 2, Len(id)), "-")
WellFormedSlabId(id, seg) ==
    /\ StartsWith(id, seg \o <<"-">>)
    /\ Len(SlabParts(id, seg)) = 2
    /\ ParseInt(SlabParts(id, seg)[1]).ok

SetMax(S) == CHOOSE m \in S : \A n \in S : n <= m

\* C6: next_slab_sequence returns 1 + the largest sequence among the identifiers
\* of the form segment-<sequence>-<subslab> (1 when there is none); malformed
\* identifiers never influence the result.
C6_NextIsLargestPlusOne ==
    ret # NoneV =>
        ret[1] = 1 + SetMax({0} \cup
                  {ParseInt(SlabParts(arg.annotations[i].slab_id, arg.segment_name)[1]).val :
                      i \in {j \in 1..Len(arg.annotations) :
                                 WellFormedSlabId(arg.annotations[j].slab_id,
                                                  arg.segment_name)}})

-----------------------------------------------------------------------------
(* SpecXml: save_annotations_xml followed by load_annotations_xml *)

MaxDocAnn == 2      \* longest annotation list of a document written and read back

\* a fresh click annotation; one with every optional field empty; ones with padded
\* or blank text; one with coordinates, markup characters and negative numbers
SampleAnnotations ==
    {Annotation(<<"a", "-", "0", "0", "0", "1", "-", "0", "0", "0", "0">>, 1, <<"G", "o", "o", "d">>, <<3, 2>>, <<2, 1>>),
     [Annotation(<<>>, 5, <<>>, <<0, 1>>, <<0, 1>>) EXCEPT
         !.size = <<>>, !.tripping_hazard = <<>>, !.surface_type = <<>>,
         !.ramp = <<>>, !.utility_present = <<>>, !.subslab = <<>>],
     [Annotation(<<"a", "-", "0", "0", "0", "1", "-", "0", "0", "0", "0">>, 2, <<" ", "G", " ">>, <<1, 1>>, <<1, 1>>) EXCEPT
         !.notes = <<" ", "a", "&", "b">>, !.subslab = <<"0", "1">>],
     [Annotation(<<"a", "-", "0", "0", "0", "1", "-", "0", "0", "0", "0">>, 1, <<"G", "o", "o", "d">>, <<1, 1>>, <<1, 1>>) EXCEPT
         !.size = <<" ", " ">>, !.ramp = <<"Y", "e", "s">>],
     [Annotation(<<"a", "-", "0", "0", "0", "2", "-", "0", "0", "0", "0">>, -3, <<"G", "o", "o", "d">>, <<-1, 4>>, <<25, 2>>) EXCEPT
         !.latitude = <<"1", ".", "5", "0", "0", "0", "0", "0", "0", "0">>, !.longitude = <<"-", "2", ".", "2", "5", "0", "0", "0", "0", "0", "0">>,
         !.technician = <<"a", "<", "b", "&", "c">>, !.running_slope = <<"2">>]}

ImageNames == {<<"a", ".", "t", "i", "f">>, <<"a", "&", "b", ".", "p", "n", "g">>}

XmlInit ==
    /\ SessionIs(Constructed(DefaultLabels))
    /\ \E items \in SeqUpTo(SampleAnnotations, MaxDocAnn), name \in ImageNames,
          size \in {<<0, 0>>, <<40, 30>>} :
           arg = [image_name |-> name, image_width |-> size[1],
                  image_height |-> size[2], annotations |-> items]
    /\ ret = [file |-> NoneV, loaded |-> NoneV]

SaveAnnotationsXml ==
    /\ ret.file = NoneV
    /\ ret' = [ret EXCEPT !.file = save_annotations_xml(arg)]
    /\ UNCHANGED <<session, arg>>

LoadAnnotationsXml ==
    /\ ret.file # NoneV
    /\ ret.loaded = NoneV
    /\ ret' = [ret EXCEPT !.loaded = load_annotations_xml(ret.file)]
    /\ UNCHANGED <<session, arg>>

XmlNext == SaveAnnotationsXml \/ LoadAnnotationsXml

SpecXml == XmlInit /\ [][XmlNext]_vars

\* the documented default of each text field of the record format
FieldDefault(field) ==
    CASE field = "size" -> <<"R", "e", "g", "u", "l", "a", "r">>
      [] field = "tripping_hazard" -> <<"N", "o">>
      [] field = "surface_type" -> <<"C", "o", "n", "c", "r", "e", "t", "e">>
      [] field = "ramp" -> <<"N", "o">>
      [] field = "utility_present" -> <<"N", "o">>
      [] field = "subslab" -> <<"0", "0", "0", "0">>
      [] OTHER -> <<>>

TextFields == {"slab_id", "label_name", "size", "tripping_hazard", "surface_type",
               "notes", "running_slope", "cross_slope", "latitude", "longitude",
               "technician", "ramp", "utility_present", "subslab"}
NumberFields == {"label_id", "x", "y"}

RoundTripDone == ret.file # NoneV /\ ret.loaded # NoneV

\* the head of the document and the length and numbers of its annotations come back
HeadComesBack ==
    /\ ret.loaded.ok
    /\ ret.loaded.doc.image_name = arg.image_name
    /\ ret.loaded.doc.image_width = arg.image_width
    /\ ret.loaded.doc.image_height = arg.image_height
    /\ Len(ret.loaded.doc.annotations) = Len(arg.annotations)
    /\ \A i \in 1..Len(arg.annotations) : \A f \in NumberFields :
           ret.loaded.doc.annotations[i][f] = arg.annotations[i][f]

\* C10 as stated: the round trip reproduces every field, except that a field that
\* was empty on write decodes to its documented default.
C10_RoundTripExact ==
    RoundTripDone =>
        /\ HeadComesBack
        /\ \A i \in 1..Len(arg.annotations) : \A f \in TextFields :
               ret.loaded.doc.annotations[i][f] =
                   IF arg.annotations[i][f] = <<>> THEN FieldDefault(f)
                   ELSE arg.annotations[i][f]

\* C10 amended: the image name, width, height, the order of the annotations and
\* their label id, x and y come back exactly; a text field that was empty on write
\* decodes to its documented default, and every other text field decodes to the
\* original with leading and trailing whitespace removed.
C10_RoundTripStripped ==
    RoundTripDone =>
        /\ HeadComesBack
        /\ \A i \in 1..Len(arg.annotations) : \A f \in TextFields :
               ret.loaded.doc.annotations[i][f] =
                   IF arg.annotations[i][f] = <<>> THEN FieldDefault(f)
                   ELSE Strip(arg.annotations[i][f])

\* a document with an empty field, a padded field and markup characters was
\* written and read back
C10_Witness ==
    /\ RoundTripDone
    /\ \E i \in 1..Len(arg.annotations) : arg.annotations[i].size = <<>>
    /\ \E i \in 1..Len(arg.annotations) :
           arg.annotations[i].notes # Strip(arg.annotations[i].notes)
    /\ Contains(arg.image_name, <<"&">>)

-----------------------------------------------------------------------------
(* SpecGeo: one georeferenced image is loaded and clicked *)

\* scale (a, e) and rotation (b, d) coefficients of the model-transform tags
\* drawn, and the two translations (c, f)
ScaleCoefs == {-1, 2}
RotationCoefs == {0, 1}
TranslateX == <<1, 2>>
TranslateY == <<-3, 1>>

\* the 16 coefficients of a model-transform tag (34264), row by row
ModelTransformTag(a, b, c, d, e, f) ==
    <<a, b, RInt(0), c, d, e, RInt(0), f,
      RInt(0), RInt(0), RInt(1), RInt(0), RInt(0), RInt(0), RInt(0), RInt(1)>>

ModelTransforms ==
    {ModelTransformTag(RInt(a), RInt(b), TranslateX, RInt(d), RInt(e), TranslateY) :
        a \in ScaleCoefs, b \in RotationCoefs, d \in RotationCoefs, e \in ScaleCoefs}

\* geo-key directories (34735): none, geographic 4326, projected 32617 (convertible),
\* projected 9999 (no converter can be built)
GeoKeyDirs ==
    {<<>>,
     <<1, 1, 0, 1, 2048, 0, 1, 4326>>,
     <<1, 1, 0, 1, 3072, 0, 1, 32617>>,
     <<1, 1, 0, 1, 3072, 0, 1, 9999>>}

GeoImage(model_transform, geokey_dir) ==
    [stem |-> <<"a">>, opens |-> TRUE,
     image |-> [size |-> <<4, 4>>, has_tags |-> TRUE,
                tag_v2 |-> [t34264 |-> model_transform, t33922 |-> <<>>,
                            t33550 |-> <<>>, t34735 |-> geokey_dir]]]

GeoFiles == {GeoImage(m, g) : m \in ModelTransforms \cup {<<>>}, g \in GeoKeyDirs}

\* screen points clicked and pixels queried
ClickPoints == {<<1, 0>>, <<3, 2>>}
QueryPixels == {<<RInt(0), RInt(0)>>, <<Rat(3, 2), RInt(2)>>}

GeoInit ==
    /\ \E pyproj \in BOOLEAN :
           SessionIs([Constructed(DefaultLabels) EXCEPT !.Transformer = pyproj])
    /\ arg = [op |-> "none"]
    /\ ret = NoneV

GeoLoadImages ==
    /\ current_image = NoneV
    /\ \E file \in GeoFiles : Becomes(load_images(Now, <<file>>))
    /\ UNCHANGED <<arg, ret>>

GeoLeftClick ==
    /\ Len(current_annotations) < MaxAnn
    /\ \E p \in ClickPoints, raises \in BOOLEAN :
           /\ Becomes(_on_left_click(Now, p[1], p[2], raises))
           /\ arg' = [op |-> "click", ex |-> p[1], ey |-> p[2], raises |-> raises]
    /\ UNCHANGED ret

GeoPixelToLatLon ==
    /\ current_image # NoneV
    /\ \E p \in QueryPixels, raises \in BOOLEAN :
           /\ ret' = Some(_pixel_to_latlon(Cur, p[1], p[2], raises))
           /\ arg' = [op |-> "pixel", col |-> p[1], row |-> p[2], raises |-> raises]
    /\ UNCHANGED session

GeoNext == GeoLoadImages \/ GeoLeftClick \/ GeoPixelToLatLon

SpecGeo == GeoInit /\ [][GeoNext]_vars

\* the last step was the query _pixel_to_latlon(col, row)
Queried == arg.op = "pixel"
\* the last step was a left click that added an annotation
Clicked == arg.op = "click" /\ current_annotations # <<>>
LastAnnotation == current_annotations[Len(current_annotations)]

NoConversionNeeded == current_geo_epsg = NoneV \/ current_geo_epsg = Some(4326)

\* C1: with the reference-system code unset or 4326, pixel_to_geographic returns
\* (lat, lon) = (d*col + e*row + f, a*col + b*row + c), whatever the converter and
\* whether or not its conversion would raise.
C1_AffineWithAxisSwap ==
    (Queried /\ current_geo_affine # NoneV /\ NoConversionNeeded) =>
        LET a == current_geo_affine[1]
            b == current_geo_affine[2]
            c == current_geo_affine[3]
            d == current_geo_affine[4]
            e == current_geo_affine[5]
            f == current_geo_affine[6]
        IN  ret = Some(<<RAdd(RAdd(RMul(d, arg.col), RMul(e, arg.row)), f),
                         RAdd(RAdd(RMul(a, arg.col), RMul(b, arg.row)), c)>>)

\* a query on a 4326 image whose transform has rotation terms, at a pixel where
\* the swapped pair differs from the unswapped one
C1_Witness ==
    /\ Queried
    /\ current_geo_epsg = Some(4326)
    /\ current_geo_affine # NoneV
    /\ current_geo_affine[2] # RInt(0)
    /\ arg.col = Rat(3, 2)
    /\ ret # NoneV /\ ret[1] # NoneV
    /\ ret[1][1] # ret[1][2]

\* a coordinate pair can be produced in the current georeference
CanConvert(raises) ==
    /\ current_geo_affine # NoneV
    /\ \/ NoConversionNeeded
       \/ current_to_wgs84_transformer # NoneV /\ ~raises

\* C2: pixel_to_geographic returns a pair if and only if a transform is present and
\* either the code is unset/4326 or a converter exists and its conversion succeeds;
\* otherwise it returns None and the annotation a click adds has empty
\* latitude and longitude.
C2_PairIffConvertible ==
    /\ Queried => ((ret # Some(NoneV)) <=> CanConvert(arg.raises))
    /\ Clicked => /\ (LastAnnotation.latitude # <<>>) <=> CanConvert(arg.raises)
                  /\ (LastAnnotation.longitude # <<>>) <=> CanConvert(arg.raises)

\* a click on an image with a transform and a known code that has no converter
\* added an annotation without coordinates
C2_Witness ==
    /\ Clicked
    /\ current_geo_affine # NoneV
    /\ current_geo_epsg = Some(9999)
    /\ current_to_wgs84_transformer = NoneV
    /\ LastAnnotation.latitude = <<>>

-----------------------------------------------------------------------------
(* SpecKmz: _load_image_from_kmz applied to an archive *)

MaxOverlays == 3      \* most ground overlays in a document

KmlName == <<"d", ".", "k", "m", "l">>
SubdirKmlName == <<"t", "/", "d", ".", "k", "m", "l">>

LatLonBox(north, south, east, west, rotation) ==
    [north |-> north, south |-> south, east |-> east, west |-> west,
     rotation |-> rotation]

WholeBox == LatLonBox(<<"2">>, <<"0">>, <<"2">>, <<"0">>, <<>>)

\* the ground overlays drawn: image a has 2x2 pixels, image b 4x4, member c is
\* no image
OverlayChoices ==
    {[href |-> <<"a">>, box |-> WholeBox],
     [href |-> <<"b">>, box |-> LatLonBox(<<"2">>, <<"0">>, <<"1", ".", "8">>, <<"0">>, <<>>)],
     [href |-> <<"b">>, box |-> LatLonBox(<<"1">>, <<"0">>, <<"1">>, <<"0">>, <<>>)],
     [href |-> <<"a">>, box |-> LatLonBox(<<"2">>, <<"1">>, <<"2">>, <<"1">>, <<>>)],
     [href |-> <<"x", "/", "A">>, box |-> LatLonBox(<<"2">>, <<"0">>, <<"1">>, <<"0">>, <<"1">>)],
     [href |-> <<"h", "t", "t", "p", ":", "/", "/", "b">>, box |-> WholeBox],
     [href |-> <<"a">>, box |-> LatLonBox(<<"x">>, <<"0">>, <<"2">>, <<"0">>, <<>>)],
     [href |-> <<"c">>, box |-> WholeBox],
     [href |-> <<"b">>, box |-> LatLonBox(<<"1">>, <<"1">>, <<"2">>, <<"0">>, <<>>)],
     [href |-> <<"a">>, box |-> NoneV],
     [href |-> <<>>, box |-> WholeBox],
     [href |-> <<"z">>, box |-> WholeBox]}

ImageSize(name) ==
    IF PathName(name) = <<"a">> THEN <<2, 2>>
    ELSE IF PathName(name) = <<"b">> THEN <<4, 4>>
    ELSE NoneV

\* an archive with the given member names and the given documents
Archive(names, docs) ==
    [names |-> names,
     images |-> [n \in {names[i] : i \in 1..Len(names)} \cup {<<>>} |-> ImageSize(n)],
     docs |-> docs]

RootNames == <<KmlName, <<"a">>, <<"b">>, <<"c">>>>
SubdirNames == <<SubdirKmlName, <<"t", "/", "a">>, <<"b">>>>

Archives ==
    {Archive(RootNames, [n \in {KmlName} |-> [overlays |-> ovs]]) :
        ovs \in SeqUpTo(OverlayChoices, MaxOverlays)}
    \cup {Archive(SubdirNames, [n \in {SubdirKmlName} |-> [overlays |-> ovs]]) :
        ovs \in SeqUpTo(OverlayChoices, 1)}
    \cup {Archive(RootNames, [n \in {KmlName} |-> NoneV]),
          Archive(Tail(RootNames), <<>>)}

KmzInit ==
    /\ SessionIs(Constructed(DefaultLabels))
    /\ arg \in Archives
    /\ ret = NoneV

LoadImageFromKmz ==
    /\ ret = NoneV
    /\ ret' = _load_image_from_kmz(arg)
    /\ dialog' = IF ret'.warnings = <<>> THEN dialog
                 ELSE ret'.warnings[Len(ret'.warnings)]
    /\ UNCHANGED <<labels, selected_label_id, Transformer, xml_files, image_paths,
                   image_index, current_image_path, current_image,
                   current_georef_bounds, current_geo_affine,
                   current_geo_epsg, current_to_wgs84_transformer, current_annotations,
                   zoom, view_x, view_y, canvas, last_drag, show_annotations_var,
                   icon_cache, hq_render_job, tk_after, score_var, counter, kmz_file,
                   key_bindings, arg>>

KmzNext == LoadImageFromKmz

SpecKmz == KmzInit /\ [][KmzNext]_vars

\* the import returned an image
Imported == ret # NoneV /\ ret.raised = ""
Candidates == {ret.overlay_entries[i] : i \in 1..Len(ret.overlay_entries)}
CoversFully(entry) == ~RLt(entry.coverage_ratio, <<17, 20>>)

\* C3: whenever some candidate has coverage_ratio >= 0.85, the selected candidate
\* has coverage_ratio >= 0.85 and no candidate with coverage_ratio >= 0.85 has a
\* higher pixel_density.
C3_FullCoverDensest ==
    (Imported /\ \E entry \in Candidates : CoversFully(entry)) =>
        /\ ret.selected \in Candidates
        /\ CoversFully(ret.selected)
        /\ \A entry \in Candidates :
               CoversFully(entry) => ~RLt(ret.selected.pixel_density, entry.pixel_density)

\* the selected candidate beat another full-cover candidate on density while a
\* candidate below 0.85 was denser than both
C3_Witness ==
    /\ Imported
    /\ CoversFully(ret.selected)
    /\ \E entry \in Candidates :
           CoversFully(entry) /\ RLt(entry.pixel_density, ret.selected.pixel_density)
    /\ \E entry \in Candidates :
           ~CoversFully(entry) /\ RLt(ret.selected.pixel_density, entry.pixel_density)

\* C4: when no candidate has coverage_ratio >= 0.85, no candidate has a larger
\* coverage_ratio than the selected one, and no candidate with the same
\* coverage_ratio has a larger pixel_density.
C4_LexicographicMax ==
    (Imported /\ \A entry \in Candidates : ~CoversFully(entry)) =>
        /\ ret.selected \in Candidates
        /\ \A entry \in Candidates :
               /\ ~RLt(ret.selected.coverage_ratio, entry.coverage_ratio)
               /\ entry.coverage_ratio = ret.selected.coverage_ratio =>
                      ~RLt(ret.selected.pixel_density, entry.pixel_density)

\* without a full-cover candidate, the selected one has the broadest coverage
\* although a narrower candidate is denser
C4_Witness ==
    /\ Imported
    /\ \A entry \in Candidates : ~CoversFully(entry)
    /\ \E entry \in Candidates :
           /\ RLt(entry.coverage_ratio, ret.selected.coverage_ratio)
           /\ RLt(ret.selected.pixel_density, entry.pixel_density)

\* without a full-cover candidate, the selected one won a tie on coverage by density
TieBrokenByDensity ==
    /\ Imported
    /\ \A entry \in Candidates : ~CoversFully(entry)
    /\ \E entry \in Candidates :
           /\ entry.coverage_ratio = ret.selected.coverage_ratio
           /\ RLt(entry.pixel_density, ret.selected.pixel_density)

\* the overlays drawn that the scan skips in an archive with the members of
\* RootNames: remote, without href, without a box or with a north that is no
\* number, naming a member that is no image, and naming no member
UnusableOverlays ==
    {[href |-> <<"h", "t", "t", "p", ":", "/", "/", "b">>, box |-> WholeBox],
     [href |-> <<>>, box |-> WholeBox],
     [href |-> <<"a">>, box |-> NoneV],
     [href |-> <<"a">>, box |-> LatLonBox(<<"x">>, <<"0">>, <<"2">>, <<"0">>, <<>>)],
     [href |-> <<"c">>, box |-> WholeBox],
     [href |-> <<"z">>, box |-> WholeBox]}

\* the ground overlays of the documents of the archive that could be read
OverlaysOf(kmz) ==
    UNION {{kmz.docs[n].overlays[i] : i \in 1..Len(kmz.docs[n].overlays)} :
              n \in {m \in DOMAIN kmz.docs : kmz.docs[m] # NoneV}}

NothingReturned == ret.image = NoneV /\ ret.bounds = NoneV /\ ret.selected = NoneV

\* C14: the import raises, returning no image and no bounds, when the archive has
\* no .kml member, and when every ground overlay of its documents is remote, lacks
\* an href or a complete box, or names a member that is missing or is no image.
C14_FailsFast ==
    ret # NoneV /\ arg.names[1] \in {KmlName, <<"a">>} =>
        /\ arg.docs = <<>> =>
               /\ ret.raised = "KMZ does not contain a KML document."
               /\ NothingReturned
        /\ (arg.docs # <<>> /\ OverlaysOf(arg) \subseteq UnusableOverlays) =>
               /\ ret.raised = "No valid GroundOverlay with local image found in KMZ."
               /\ NothingReturned

\* an import of three overlays skipped for different reasons has raised
C14_Witness ==
    /\ ret # NoneV
    /\ ret.raised = "No valid GroundOverlay with local image found in KMZ."
    /\ Cardinality(OverlaysOf(arg)) = 3
    /\ [href |-> <<"h", "t", "t", "p", ":", "/", "/", "b">>, box |-> WholeBox] \in OverlaysOf(arg)
    /\ [href |-> <<"c">>, box |-> WholeBox] \in OverlaysOf(arg)

\* the import of an archive without a .kml member has raised
NoMarkupRaised ==
    /\ ret # NoneV
    /\ arg.docs = <<>>
    /\ ret.raised = "KMZ does not contain a KML document."

\* C16: an import that selects in the fallback branch (no candidate with
\* coverage_ratio >= 0.85) shows the quality warning, one whose selected candidate
\* has |rotation| > 0.0001 shows the rotation warning, and both return the selected
\* image and its bounding box.
C16_DegradedImportWarns ==
    Imported =>
        /\ (\A entry \in Candidates : ~CoversFully(entry)) =>
               \E i \in 1..Len(ret.warnings) : ret.warnings[i] = "KMZ quality"
        /\ RLt(<<1, 10000>>, RAbs(ret.selected.rotation)) =>
               \E i \in 1..Len(ret.warnings) : ret.warnings[i] = "KMZ rotation"
        /\ ((\A entry \in Candidates : ~CoversFully(entry))
               \/ RLt(<<1, 10000>>, RAbs(ret.selected.rotation))) =>
               /\ ret.image = [member |-> ret.selected.image_member,
                               size |-> <<ret.selected.width, ret.selected.height>>]
               /\ ret.bounds = [north |-> ret.selected.north, south |-> ret.selected.south,
                                east |-> ret.selected.east, west |-> ret.selected.west]

\* a rotated overlay was selected in the fallback branch, with both warnings
C16_Witness ==
    /\ Imported
    /\ \A entry \in Candidates : ~CoversFully(entry)
    /\ ret.selected.rotation = RInt(1)
    /\ ret.warnings = <<"KMZ quality", "KMZ rotation">>
    /\ ret.image # NoneV /\ ret.bounds # NoneV

-----------------------------------------------------------------------------
(* SpecView: one image is loaded, then zoomed, panned and rendered *)

MaxWheel == 3        \* most wheel events that change the zoom after a load

RECURSIVE Pow10(_)
Pow10(n) == IF n = 0 THEN 1 ELSE 10 * Pow10(n - 1)

ViewFile ==
    [stem |-> <<"a">>, opens |-> TRUE,
     image |-> [size |-> <<4, 4>>, has_tags |-> FALSE, tag_v2 |-> NoneV]]

WheelPoints == {<<1, 1>>, <<2, 0>>}
WheelDeltas == {120, -120}
DragPoints == {<<0, 0>>, <<2, 1>>}
CanvasSizes == {<<6, 4>>, <<2, 2>>}

\* the view an event handler started from
ViewBefore == [zoom |-> zoom, view_x |-> view_x, view_y |-> view_y, canvas |-> canvas]

ViewInit ==
    /\ SessionIs(Constructed(DefaultLabels))
    /\ arg = [op |-> "none"]
    /\ ret = NoneV

ViewLoadImages ==
    /\ current_image = NoneV
    /\ Becomes(load_images(Now, <<ViewFile>>))
    /\ arg' = [op |-> "load"]
    /\ UNCHANGED ret

\* a wheel step multiplies the zoom by 11/10 or 9/10, so the denominator of the
\* zoom counts the wheel events since the load
ViewMouseWheel ==
    /\ zoom[2] < Pow10(MaxWheel)
    /\ \E p \in WheelPoints, delta \in WheelDeltas :
           /\ Becomes(_on_mousewheel(Now, delta, p[1], p[2]))
           /\ arg' = [op |-> "wheel", ex |-> p[1], ey |-> p[2], delta |-> delta,
                      before |-> ViewBefore]
    /\ UNCHANGED ret

ViewStartPan ==
    /\ \E p \in DragPoints : Becomes(_start_pan(Now, p[1], p[2]))
    /\ arg' = [op |-> "press"]
    /\ UNCHANGED ret

ViewDragPan ==
    /\ \E p \in DragPoints : Becomes(_drag_pan(Now, p[1], p[2]))
    /\ arg' = [op |-> "drag"]
    /\ UNCHANGED ret

ViewConfigure ==
    /\ \E size \in CanvasSizes : Becomes(OnConfigure(Now, size[1], size[2]))
    /\ arg' = [op |-> "configure"]
    /\ UNCHANGED ret

\* the timer fires the scheduled job
ViewRunHqRender ==
    /\ hq_render_job # NoneV
    /\ hq_render_job[1] \in tk_after
    /\ Becomes(_run_hq_render([Now EXCEPT !.tk_after = @ \ {hq_render_job[1]}]))
    /\ arg' = [op |-> "hq"]
    /\ UNCHANGED ret

ViewNext ==
    \/ ViewLoadImages
    \/ ViewMouseWheel
    \/ ViewStartPan
    \/ ViewDragPan
    \/ ViewConfigure
    \/ ViewRunHqRender

SpecView == ViewInit /\ [][ViewNext]_vars

\* the image coordinate shown at screen coordinate e, for a pan origin and a zoom
PixelUnder(origin, e, z) == RAdd(origin, RDiv(RInt(e), z))

\* the last event was a wheel event on a loaded image
Wheeled == arg.op = "wheel" /\ current_image # NoneV

\* C5 as stated: after a wheel event has been handled, render included, the image
\* pixel under the cursor is the one that was under it before the event.
C5_PixelKeptAfterRender ==
    Wheeled =>
        /\ PixelUnder(view_x, arg.ex, zoom) =
               PixelUnder(arg.before.view_x, arg.ex, arg.before.zoom)
        /\ PixelUnder(view_y, arg.ey, zoom) =
               PixelUnder(arg.before.view_y, arg.ey, arg.before.zoom)

\* the pan origin that keeps the pixel under screen coordinate e in place
AnchoredOrigin(origin, e, old_zoom, new_zoom) ==
    RSub(PixelUnder(origin, e, old_zoom), RDiv(RInt(e), new_zoom))

\* the render leaves this origin alone: the image is larger than the visible
\* span and the origin lies in [0, image_dim - visible]
WithinPanRange(origin, canvas_dim, z, img_dim) ==
    /\ RLt(RDiv(RInt(canvas_dim), z), RInt(img_dim))
    /\ RLe(RInt(0), origin)
    /\ RLe(origin, RSub(RInt(img_dim), RDiv(RInt(canvas_dim), z)))

AnchoredX == AnchoredOrigin(arg.before.view_x, arg.ex, arg.before.zoom, zoom)
AnchoredY == AnchoredOrigin(arg.before.view_y, arg.ey, arg.before.zoom, zoom)

\* C5 amended: after a wheel event has been handled, render included, the image
\* pixel under the cursor is unchanged on every axis on which the pan origin that
\* anchors it lies within the range the render clamps to (image larger than the
\* visible span, 0 <= origin <= image_dim - visible).
C5_PixelKeptWithinPanRange ==
    Wheeled =>
        /\ WithinPanRange(AnchoredX, canvas[1], zoom, current_image.size[1]) =>
               PixelUnder(view_x, arg.ex, zoom) =
                   PixelUnder(arg.before.view_x, arg.ex, arg.before.zoom)
        /\ WithinPanRange(AnchoredY, canvas[2], zoom, current_image.size[2]) =>
               PixelUnder(view_y, arg.ey, zoom) =
                   PixelUnder(arg.before.view_y, arg.ey, arg.before.zoom)

\* a wheel event away from the canvas origin changed the zoom and moved the pan
\* origin, with the anchoring origin in range on both axes
C5_Witness ==
    /\ Wheeled
    /\ zoom # arg.before.zoom
    /\ arg.ex > 0 /\ arg.ey > 0
    /\ view_x # arg.before.view_x /\ view_y # arg.before.view_y
    /\ WithinPanRange(AnchoredX, canvas[1], zoom, current_image.size[1])
    /\ WithinPanRange(AnchoredY, canvas[2], zoom, current_image.size[2])

-----------------------------------------------------------------------------
(* SpecScore: _update_counter applied to an annotation list and a catalog *)

MaxScoreAnn == 3      \* longest annotation list scored

\* a catalog edited by the user: label 1 renamed so that two class words occur
\* in it, label 2 renamed to upper case, label 4 deleted
EditedLabels ==
    <<[id |-> 1, key |-> "1", name |-> <<"S", "e", "v", "e", "r", "e", " ", "G", "O", "O", "D">>,
       severity_code |-> "1", icon |-> <<"good", "bmp">>, enabled |-> TRUE],
      [id |-> 2, key |-> "2", name |-> <<"M", "O", "D", "E", "R", "A", "T", "E">>,
       severity_code |-> "2", icon |-> <<"minor", "bmp">>, enabled |-> TRUE],
      [id |-> 5, key |-> "5", name |-> <<"o", "t", "h", "e", "r">>,
       severity_code |-> "0", icon |-> <<"not_a_sidewalk", "bmp">>, enabled |-> FALSE]>>

ScoreCatalogs == {DefaultLabels, EditedLabels}

\* (label_id, label_name) of the annotations drawn; id 9 is in no catalog
ScoreLabels ==
    {<<1, <<"G", "o", "o", "d">>>>,
     <<2, <<"M", "i", "n", "o", "r">>>>,
     <<3, <<"M", "o", "d", "e", "r", "a", "t", "e">>>>,
     <<4, <<"S", "e", "v", "e", "r", "e">>>>,
     <<5, <<"N", "o", "t", " ", "a", " ", "S", "i", "d", "e", "w", "a", "l", "k">>>>,
     <<9, <<"M", "i", "n", "o", "r", " ", "s", "e", "v", "e", "r", "e">>>>,
     <<9, <<"c", "u", "r", "b">>>>}

ScoreInit ==
    /\ SessionIs(Constructed(DefaultLabels))
    /\ \E picks \in SeqUpTo(ScoreLabels, MaxScoreAnn), catalog \in ScoreCatalogs :
           arg = [annotations |->
                      [i \in 1..Len(picks) |->
                          Annotation(<<>>, picks[i][1], picks[i][2], <<0, 1>>, <<0, 1>>)],
                  labels |-> catalog]
    /\ ret = NoneV

UpdateCounterCall ==
    /\ ret = NoneV
    /\ ret' = _update_counter(arg.annotations, arg.labels)
    /\ UNCHANGED <<session, arg>>

ScoreNext == UpdateCounterCall

SpecScore == ScoreInit /\ [][ScoreNext]_vars

\* the catalog's name for the annotation's label id, else the annotation's own
\* name, in lower case
NameOf(i) ==
    IF \E k \in 1..Len(arg.labels) : arg.labels[k].id = arg.annotations[i].label_id
    THEN Lower((CHOOSE l \in {arg.labels[k] : k \in 1..Len(arg.labels)} :
                    l.id = arg.annotations[i].label_id).name)
    ELSE Lower(arg.annotations[i].label_name)

Has(i, word) == Contains(NameOf(i), word)
Good == <<"g", "o", "o", "d">>
Minor == <<"m", "i", "n", "o", "r">>
Moderate == <<"m", "o", "d", "e", "r", "a", "t", "e">>
Severe == <<"s", "e", "v", "e", "r", "e">>

\* the annotations that count: T is their number
Counted ==
    {i \in 1..Len(arg.annotations) :
        /\ ~Contains(NameOf(i), NotASidewalk)
        /\ ~Contains(Lower(arg.annotations[i].label_name), NotASidewalk)}
G == Cardinality({i \in Counted : Has(i, Good)})
Y == Cardinality({i \in Counted : ~Has(i, Good) /\ Has(i, Minor)})
O == Cardinality({i \in Counted : ~Has(i, Good) /\ ~Has(i, Minor) /\ Has(i, Moderate)})
R == Cardinality({i \in Counted :
        ~Has(i, Good) /\ ~Has(i, Minor) /\ ~Has(i, Moderate) /\ Has(i, Severe)})
T == Cardinality(Counted)

\* ((g + 0.7 y + 0.3 o) / t) * 100 * (1 - r / t), as tenths over t * t
Formula(g, y, o, r, t) == Rat((10 * g + 7 * y + 3 * o) * 10 * (t - r), t * t)

Clamped(q) ==
    IF RLt(q, RInt(0)) THEN RInt(0) ELSE IF RLt(RInt(100), q) THEN RInt(100) ELSE q

\* what _update_counter showed agrees with the counts g, y, o, r out of t
Shows(g, y, o, r, t) ==
    /\ ret.counter.slab_total = t
    /\ ret.counter.green_total = g /\ ret.counter.yellow_total = y
    /\ ret.counter.orange_total = o /\ ret.counter.red_total = r
    /\ g + y + o + r <= t
    /\ ret.score_var.score = IF t = 0 THEN RInt(0) ELSE Clamped(Formula(g, y, o, r, t))
    /\ RLe(RInt(0), ret.score_var.score) /\ RLe(ret.score_var.score, RInt(100))
    /\ ret.score_var.text = FormatFixed(ret.score_var.score, 2)

\* C7: the score is 0 when T = 0 and otherwise the formula clamped to [0, 100],
\* with every counted annotation in exactly one of G/Y/O/R by the first class word
\* its resolved name contains, or in none; the score is within [0, 100] and
\* G + Y + O + R <= T.
C7_ScoreFormula == ret # NoneV => Shows(G, Y, O, R, T)

\* a list with an excluded annotation, a severe one and one counted by the first
\* of two class words was scored strictly between 0 and 100
C7_Witness ==
    /\ ret # NoneV
    /\ T < Len(arg.annotations)
    /\ R >= 1
    /\ \E i \in Counted : Has(i, Minor) /\ Has(i, Severe)
    /\ RLt(RInt(0), ret.score_var.score) /\ RLt(ret.score_var.score, RInt(100))

-----------------------------------------------------------------------------
(* SpecExport: an image with a stored annotation record is loaded, the catalog
   is edited and the annotations are exported to KMZ *)

MaxExportAnn == 2     \* longest annotation record found beside the image

\* the annotations of the records drawn: with both coordinates, with none, with
\* one, with text that is no number; label 4 is deleted by the catalog edit
ExportAnnotations ==
    {
     [Annotation(<<"a", "-", "0", "0", "0", "1", "-", "0", "0", "0", "0">>, 1, <<"G", "o", "o", "d">>, <<0, 1>>, <<0, 1>>)
         EXCEPT !.latitude = <<"1", ".", "5">>, !.longitude = <<"-", "3", ".", "2", "5">>],
     [Annotation(<<"a", "-", "0", "0", "0", "2", "-", "0", "0", "0", "0">>, 2, <<"M", "i", "n", "o", "r">>, <<0, 1>>, <<0, 1>>)
         EXCEPT !.latitude = <<"2">>, !.longitude = <<"7", ".", "1", "2", "5">>],
     [Annotation(<<"a", "-", "0", "0", "0", "3", "-", "0", "0", "0", "0">>, 1, <<"G", "o", "o", "d">>, <<0, 1>>, <<0, 1>>)
         EXCEPT !.latitude = <<>>, !.longitude = <<>>],
     [Annotation(<<"a", "-", "0", "0", "0", "4", "-", "0", "0", "0", "0">>, 2, <<"M", "i", "n", "o", "r">>, <<0, 1>>, <<0, 1>>)
         EXCEPT !.latitude = <<"1", ".", "5">>, !.longitude = <<"a", "b", "c">>],
     [Annotation(<<"a", "-", "0", "0", "0", "5", "-", "0", "0", "0", "0">>, 4, <<"S", "e", "v", "e", "r", "e">>, <<0, 1>>, <<0, 1>>)
         EXCEPT !.latitude = <<"x">>, !.longitude = <<"2">>],
     [Annotation(<<>>, 5, <<"N", "o", "t", " ", "a", " ", "S", "i", "d", "e", "w", "a", "l", "k">>, <<0, 1>>, <<0, 1>>)
         EXCEPT !.latitude = <<"n", "a", "n">>, !.longitude = <<"0", ".", "5">>],
     [Annotation(<<"a", "-", "0", "0", "0", "7", "-", "0", "0", "0", "0">>, 1, <<"G", "o", "o", "d">>, <<0, 1>>, <<0, 1>>)
         EXCEPT !.latitude = <<"4", ".", "0">>, !.longitude = <<>>],
     [Annotation(<<"a", "-", "0", "0", "0", "8", "-", "0", "0", "0", "0">>, 4, <<"S", "e", "v", "e", "r", "e">>, <<0, 1>>, <<0, 1>>)
         EXCEPT !.latitude = <<"5">>, !.longitude = <<"6">>]}

ExportDocument(items) ==
    [image_name |-> <<"a", ".", "t", "i", "f">>, image_width |-> 4, image_height |-> 4,
     annotations |-> items]

ExportOutputs == {"", "out.kmz"}

ExportInit ==
    /\ \E items \in SeqUpTo(ExportAnnotations, MaxExportAnn) :
           SessionIs([Constructed(DefaultLabels) EXCEPT
                         !.xml_files = (<<"a">> :> save_annotations_xml(ExportDocument(items)))])
    /\ arg = [op |-> "none"]
    /\ ret = NoneV

ExportLoadImages ==
    /\ current_image = NoneV
    /\ Becomes(load_images(Now, <<ViewFile>>))
    /\ arg' = [op |-> "load"]
    /\ UNCHANGED ret

ExportLabelsSaved ==
    /\ \E ls \in ScoreCatalogs : Becomes(_on_labels_saved(Now, ls))
    /\ arg' = [op |-> "labels"]
    /\ UNCHANGED ret

ExportKmz ==
    /\ \E output \in ExportOutputs :
           /\ Becomes(export_kmz(Now, output))
           /\ arg' = [op |-> "export", output |-> output, before |-> kmz_file]
    /\ UNCHANGED ret

ExportNext == ExportLoadImages \/ ExportLabelsSaved \/ ExportKmz

SpecExport == ExportInit /\ [][ExportNext]_vars

\* the texts among those drawn that float() accepts (nan included)
NumberTexts ==
    {<<"1", ".", "5">>,
     <<"-", "3", ".", "2", "5">>,
     <<"2">>,
     <<"7", ".", "1", "2", "5">>,
     <<"n", "a", "n">>,
     <<"0", ".", "5">>,
     <<"4", ".", "0">>,
     <<"5">>,
     <<"6">>}

\* annotation i of the current list has a latitude and a longitude that parse
Georeferenced(i) ==
    /\ current_annotations[i].latitude \in NumberTexts
    /\ current_annotations[i].longitude \in NumberTexts

\* the last event was an export that went as far as looking for coordinates
ExportTried == arg.op = "export" /\ arg.output # "" /\ current_image_path # NoneV
\* the last event was an export that wrote the archive
Exported == ExportTried /\ dialog = NoDialog

RECURSIVE AllPlacemarks(_)
AllPlacemarks(folders) ==
    IF folders = <<>> THEN <<>>
    ELSE Head(folders).placemarks \o AllPlacemarks(Tail(folders))

Placemarks == AllPlacemarks(kmz_file.folders)

\* placemark k was written for an annotation equal to annotation i: the sample
\* annotations differ in their slab identifier (the one without has "-")
PlacemarkOf(k, i) ==
    Placemarks[k].description.SlabID =
        IF current_annotations[i].slab_id = <<>> THEN <<"-">>
        ELSE current_annotations[i].slab_id

\* C8: an export writes no placemark for an annotation whose latitude or longitude
\* does not parse, and when no annotation has both it ends with the
\* 'No coordinates' warning and leaves the archive file as it was.
C8_NoPlacemarkWithoutCoordinates ==
    /\ Exported =>
           \A i \in 1..Len(current_annotations) :
               ~Georeferenced(i) => \A k \in 1..Len(Placemarks) : ~PlacemarkOf(k, i)
    /\ (ExportTried /\ \A i \in 1..Len(current_annotations) : ~Georeferenced(i)) =>
           dialog = "No coordinates" /\ kmz_file = arg.before

\* an archive was written for a list in which one annotation has coordinates and
\* another has a longitude that is no number
C8_Witness ==
    /\ Exported
    /\ Len(Placemarks) >= 1
    /\ \E i \in 1..Len(current_annotations) :
           /\ current_annotations[i].latitude \in NumberTexts
           /\ current_annotations[i].longitude \notin NumberTexts

\* an export of a non-empty list without coordinates was refused
ExportRefused ==
    /\ ExportTried
    /\ current_annotations # <<>>
    /\ dialog = "No coordinates"

\* the number of annotations of the current list equal to annotation i
Copies(i) ==
    Cardinality({j \in 1..Len(current_annotations) :
                    current_annotations[j] = current_annotations[i]})

\* the placemarks written for annotation i, with coordinates lon,lat,0
PlacemarksFor(i) ==
    {k \in 1..Len(Placemarks) :
        /\ PlacemarkOf(k, i)
        /\ Placemarks[k].coordinates =
               <<FormatCoordinate(ParseFloat(current_annotations[i].longitude).val),
                 FormatCoordinate(ParseFloat(current_annotations[i].latitude).val),
                 <<"0">>>>}

\* C9: a successful export holds exactly one placemark for every annotation with
\* parseable latitude and longitude, whether or not its label id is in the
\* catalog, with coordinates lon,lat,0.
C9_OnePlacemarkEach ==
    Exported =>
        /\ \A i \in 1..Len(current_annotations) :
               Georeferenced(i) => Cardinality(PlacemarksFor(i)) = Copies(i)
        /\ Len(Placemarks) =
               Cardinality({i \in 1..Len(current_annotations) : Georeferenced(i)})

\* the same with the annotations whose label id is not in the catalog left out
OnePlacemarkEachKnownLabel ==
    Exported =>
        /\ \A i \in 1..Len(current_annotations) :
               (Georeferenced(i) /\ LabelById(labels, current_annotations[i].label_id) # NoneV)
                   => Cardinality(PlacemarksFor(i)) = Copies(i)
        /\ Len(Placemarks) =
               Cardinality({i \in 1..Len(current_annotations) :
                               /\ Georeferenced(i)
                               /\ LabelById(labels, current_annotations[i].label_id) # NoneV})

-----------------------------------------------------------------------------
(* SpecLoad: annotation records read beside the image and through the dialog *)

\* the node save_annotations_xml writes for one annotation
BaseNode ==
    save_annotations_xml(ExportDocument(
        <<Annotation(<<"a", "-", "0", "0", "0", "1", "-", "0", "0", "0", "0">>, 1,
                     <<"G", "o", "o", "d">>, <<1, 1>>, <<2, 1>>)>>)).nodes[1]

\* the node without the child element `tag`
Without(node, tag) == [t \in (DOMAIN node) \ {tag} |-> node[t]]

\* texts that neither int() nor float() accepts
UnparseableTexts == {<<"x", "1">>, <<"a", "b", "c">>, <<" ">>}

\* nodes as written, with a required child missing or empty, and with a number
\* replaced by text that is no number
LoadNodes ==
    {BaseNode,
     Without(BaseNode, "LabelID"), Without(BaseNode, "X"), Without(BaseNode, "SlabID"),
     [BaseNode EXCEPT !["Y"] = <<>>],
     [BaseNode EXCEPT !["SlabID"] = <<"?">>],
     [BaseNode EXCEPT !["LabelID"] = <<"x", "1">>],
     [BaseNode EXCEPT !["X"] = <<"a", "b", "c">>],
     [BaseNode EXCEPT !["Y"] = <<" ">>]}

RecordFile(nodes) ==
    [wellformed |-> TRUE, image |-> <<"a", ".", "t", "i", "f">>,
     width |-> <<"4">>, height |-> <<"4">>, nodes |-> nodes]

\* the records offered to the dialog, and those found beside the image
\* (the longer ones start with a node as written or with one that does not parse)
FirstNodes == {BaseNode, [BaseNode EXCEPT !["X"] = <<"a", "b", "c">>]}
AutoFiles == {RecordFile(nodes) : nodes \in SeqUpTo(LoadNodes, 1)}
ManualFiles ==
    AutoFiles \cup {RecordFile(<<first, second>>) : first \in FirstNodes, second \in LoadNodes}

LoadInit ==
    /\ \/ SessionIs(Constructed(DefaultLabels))
       \/ \E file \in AutoFiles :
              SessionIs([Constructed(DefaultLabels) EXCEPT !.xml_files = (<<"a">> :> file)])
    /\ arg = [op |-> "none"]
    /\ ret = NoneV

LoadLoadImages ==
    /\ current_image = NoneV
    /\ Becomes(load_images(Now, <<ViewFile>>))
    /\ arg' = [op |-> "load"]
    /\ UNCHANGED ret

LoadLeftClick ==
    /\ Len(current_annotations) < MaxAnn
    /\ Becomes(_on_left_click(Now, 1, 0, FALSE))
    /\ arg' = [op |-> "click", ex |-> 1, ey |-> 0]
    /\ UNCHANGED ret

LoadAnnotationsManual ==
    /\ \E file \in ManualFiles \cup {NoneV} :
           /\ Becomes(load_annotations_manual(Now, file))
           /\ arg' = [op |-> "manual", file |-> file, before |-> current_annotations]
    /\ UNCHANGED ret

LoadNext == LoadLoadImages \/ LoadLeftClick \/ LoadAnnotationsManual

SpecLoad == LoadInit /\ [][LoadNext]_vars

NumberTags == {"LabelID", "X", "Y"}
RequiredTags == NumberTags \cup {"SlabID"}

\* a number of the node is present and is no number
Unparsed(node) == \E tag \in NumberTags : tag \in DOMAIN node /\ node[tag] \in UnparseableTexts
\* a required child of the node is missing
Missing(node) == \E tag \in RequiredTags : tag \notin DOMAIN node

\* the record the last handler read: the one chosen in the dialog, or the one beside
\* the image on an image load
RecordRead ==
    IF arg.op = "manual" /\ arg.file # NoneV /\ current_image # NoneV THEN Some(arg.file)
    ELSE IF arg.op = "load" /\ <<"a">> \in DOMAIN xml_files THEN Some(xml_files[<<"a">>])
    ELSE NoneV

\* the list the session must be left with when the load fails as a whole
ListOnFailure == IF arg.op = "manual" THEN arg.before ELSE <<>>

FailedAsAWhole ==
    /\ current_annotations = ListOnFailure
    /\ dialog = "Failed to load annotations"

MissingFieldLoaded ==
    /\ arg.op = "manual" /\ RecordRead # NoneV
    /\ Len(arg.file.nodes) = 1 /\ Missing(arg.file.nodes[1])
    /\ Len(current_annotations) = 1
    /\ dialog = NoDialog

-----------------------------------------------------------------------------
(* SpecSession: a session of image loads, record loads, clicks, removals, pans,
   zooms and timer callbacks *)

MaxSessionWheel == 1   \* most wheel events that change the zoom after a load
MaxSessionSeq == 3     \* largest slab sequence number a click gives out

\* a GeoTIFF in EPSG:4326 and an image without tags
SessionGeoFile ==
    GeoImage(ModelTransformTag(RInt(2), RInt(0), TranslateX, RInt(0), RInt(-1), TranslateY),
             <<1, 1, 0, 1, 2048, 0, 1, 4326>>)
SessionFiles == {SessionGeoFile, ViewFile}

\* records whose entry has both coordinates, only a latitude, and a latitude that
\* is no number
WithLatLon(lat, lon) ==
    RecordFile(<<[BaseNode EXCEPT !["Latitude"] = lat, !["Longitude"] = lon]>>)
SessionRecords ==
    {WithLatLon(<<"1", ".", "5">>, <<"-", "2">>),
     WithLatLon(<<"1", ".", "5">>, <<>>),
     WithLatLon(<<"a", "b", "c">>, <<"2">>)}

SessionInit ==
    /\ SessionIs(Constructed(DefaultLabels))
    /\ arg = [op |-> "none"]
    /\ ret = NoneV

SessionLoadImages ==
    /\ \E file \in SessionFiles : Becomes(load_images(Now, <<file>>))
    /\ arg' = [op |-> "load"]
    /\ UNCHANGED ret

SessionLoadAnnotationsManual ==
    /\ \E file \in SessionRecords : Becomes(load_annotations_manual(Now, file))
    /\ arg' = [op |-> "manual"]
    /\ UNCHANGED ret

SessionLeftClick ==
    /\ Len(current_annotations) < MaxAnn
    /\ next_slab_sequence(current_annotations, <<"a">>) <= MaxSessionSeq
    /\ Becomes(_on_left_click(Now, 1, 0, FALSE))
    /\ arg' = [op |-> "click", before |-> current_annotations]
    /\ UNCHANGED ret

SessionRightClick ==
    /\ \E p \in ClickPoints : Becomes(_on_right_click(Now, p[1], p[2]))
    /\ arg' = [op |-> "remove"]
    /\ UNCHANGED ret

SessionMouseWheel ==
    /\ zoom[2] < Pow10(MaxSessionWheel)
    /\ \E delta \in WheelDeltas : Becomes(_on_mousewheel(Now, delta, 1, 1))
    /\ arg' = [op |-> "wheel"]
    /\ UNCHANGED ret

SessionStartPan ==
    /\ Becomes(_start_pan(Now, 0, 0))
    /\ arg' = [op |-> "press"]
    /\ UNCHANGED ret

SessionDragPan ==
    /\ Becomes(_drag_pan(Now, 2, 1))
    /\ arg' = [op |-> "drag"]
    /\ UNCHANGED ret

\* the Tk timer runs a callback that is still in its queue
SessionTimerFires ==
    /\ \E job \in tk_after :
           /\ Becomes(_run_hq_render([Now EXCEPT !.tk_after = @ \ {job}]))
           /\ arg' = [op |-> "hq", job |-> job, slot |-> hq_render_job]
    /\ UNCHANGED ret

SessionNext ==
    \/ SessionLoadImages
    \/ SessionLoadAnnotationsManual
    \/ SessionLeftClick
    \/ SessionRightClick
    \/ SessionMouseWheel
    \/ SessionStartPan
    \/ SessionDragPan
    \/ SessionTimerFires

SpecSession == SessionInit /\ [][SessionNext]_vars

\* the text is a decimal number
IsDecimal(text) == ParseFloat(text).ok /\ ParseFloat(text).val # NaN

GeoFieldsPaired(item) ==
    \/ item.latitude = <<>> /\ item.longitude = <<>>
    \/ IsDecimal(item.latitude) /\ IsDecimal(item.longitude)

\* every annotation of the list after a step that is not a load was in the list
\* before the step with the same values, but for the one a click appends
ValuesKept ==
    arg'.op \notin {"load", "manual"} =>
        \A i \in 1..Len(current_annotations') :
            \/ \E j \in 1..Len(current_annotations) :
                   current_annotations'[i] = current_annotations[j]
            \/ arg'.op = "click" /\ i = Len(current_annotations')

\* C12: in every reachable state each annotation of the current list has latitude
\* and longitude both empty or both decimal numbers, and no step changes the stored
\* values of an annotation.
C12_GeoFieldsPairedAndFixed ==
    /\ [](\A i \in 1..Len(current_annotations) : GeoFieldsPaired(current_annotations[i]))
    /\ [][ValuesKept]_vars

\* the annotations made by clicks have paired coordinates, and no step changes an
\* annotation
ClickedFieldsPaired ==
    arg.op = "click" /\ Len(current_annotations) > Len(arg.before) =>
        GeoFieldsPaired(current_annotations[Len(current_annotations)])
ValuesNeverChange == [][ValuesKept]_vars

-----------------------------------------------------------------------------
(* SpecArchive: a KMZ archive is chosen in the image dialog, then the canvas is
   clicked *)

\* the path of an archive: Image.open() identifies no image in a zip file and raises
ArchiveFile(kmz) == [stem |-> <<"a">>, opens |-> FALSE, image |-> NoneV, kmz |-> kmz]

ArchiveFiles ==
    {ArchiveFile(Archive(RootNames, [n \in {KmlName} |-> [overlays |-> ovs]])) :
        ovs \in SeqUpTo(OverlayChoices, 2)}

ArchiveInit ==
    /\ SessionIs(Constructed(DefaultLabels))
    /\ arg = [op |-> "none"]
    /\ ret = NoneV

ArchiveLoadImages ==
    /\ current_image = NoneV
    /\ \E file \in ArchiveFiles \cup {SessionGeoFile} : Becomes(load_images(Now, <<file>>))
    /\ arg' = [op |-> "load"]
    /\ UNCHANGED ret

ArchiveLeftClick ==
    /\ Len(current_annotations) < MaxAnn
    /\ image_paths # <<>>
    /\ \E p \in ClickPoints :
           /\ Becomes(_on_left_click(Now, p[1], p[2], FALSE))
           /\ arg' = [op |-> "click", ex |-> p[1], ey |-> p[2], before |-> current_annotations]
    /\ UNCHANGED ret

ArchiveNext == ArchiveLoadImages \/ ArchiveLeftClick

SpecArchive == ArchiveInit /\ [][ArchiveNext]_vars

\* lat = north + (row / height) * (south - north), lon = west + (col / width) * (east - west)
Interpolated(bounds, size, col, row) ==
    <<RAdd(bounds.north, RMul(Rat(row, size[2]), RSub(bounds.south, bounds.north))),
      RAdd(bounds.west, RMul(Rat(col, size[1]), RSub(bounds.east, bounds.west)))>>

\* the new annotation carries the interpolation of the box of `import` at the pixel
StoresInterpolation(import, col, row) ==
    /\ Len(current_annotations) = Len(arg.before) + 1
    /\ current_annotations[Len(current_annotations)].latitude =
           FormatFixed(Interpolated(import.bounds, import.image.size, col, row)[1], CoordPlaces)
    /\ current_annotations[Len(current_annotations)].longitude =
           FormatFixed(Interpolated(import.bounds, import.image.size, col, row)[2], CoordPlaces)

ClickOnImport(import) ==
    (import.raised = "" /\ arg.ex < import.image.size[1] /\ arg.ey < import.image.size[2])
        => StoresInterpolation(import, arg.ex, arg.ey)

\* C15: a click at pixel (col, row) of an image loaded from an archive, whose import
\* selects the box (north, south, east, west) of an image of width x height pixels,
\* stores lat = north + (row/height)*(south - north) and
\* lon = west + (col/width)*(east - west) on the new annotation.
C15_ArchiveClickInterpolates ==
    (arg.op = "click" /\ "kmz" \in DOMAIN image_paths[1])
        => ClickOnImport(_load_image_from_kmz(image_paths[1].kmz))

\* the archive chosen in the dialog was not opened as an archive: no image is
\* current, no bounds are set and a click stores nothing
ArchiveNotLoaded ==
    (image_paths # <<>> /\ "kmz" \in DOMAIN image_paths[1]) =>
        /\ current_image = NoneV
        /\ current_georef_bounds = NoneV
        /\ current_annotations = <<>>
NoBoundsEver == current_georef_bounds = NoneV

-----------------------------------------------------------------------------
(* SpecSidewalk: labels are selected, annotations are made by click or read from a
   record, counted, drawn and saved *)

LabelValues == {0, 1, 5}

\* a record whose entry has the given label id and label name
WithLabel(label_id, label_name) ==
    RecordFile(<<[BaseNode EXCEPT !["LabelID"] = IntToStr(label_id),
                                 !["LabelName"] = label_name]>>)

\* id 5 under a name of its own, a name that says 'not a sidewalk' under the id of
\* Good, and a plain Minor
SidewalkRecords ==
    {WithLabel(5, <<"c", "u", "r", "b">>),
     WithLabel(1, <<"N", "O", "T", " ", "a", " ", "S", "i", "d", "e", "w", "a", "l", "k", " ", "g", "o", "o", "d">>),
     WithLabel(2, <<"M", "i", "n", "o", "r">>)}

SidewalkInit ==
    /\ \E catalog \in ScoreCatalogs : SessionIs(Constructed(catalog))
    /\ arg = [op |-> "none"]
    /\ ret = NoneV

SidewalkLoadImages ==
    /\ current_image = NoneV
    /\ Becomes(load_images(Now, <<ViewFile>>))
    /\ arg' = [op |-> "load"]
    /\ UNCHANGED ret

SidewalkSelectLabel ==
    /\ \E value \in LabelValues : Becomes(_select_label_from_ui(Now, value))
    /\ arg' = [op |-> "select"]
    /\ UNCHANGED ret

SidewalkLeftClick ==
    /\ Len(current_annotations) < MaxAnn
    /\ Becomes(_on_left_click(Now, 1, 0, FALSE))
    /\ arg' = [op |-> "click", before |-> current_annotations]
    /\ UNCHANGED ret

SidewalkLoadAnnotationsManual ==
    /\ \E file \in SidewalkRecords : Becomes(load_annotations_manual(Now, file))
    /\ arg' = [op |-> "manual"]
    /\ UNCHANGED ret

SidewalkSaveAnnotations ==
    /\ Becomes(save_annotations(Now))
    /\ arg' = [op |-> "save"]
    /\ UNCHANGED ret

SidewalkNext ==
    \/ SidewalkLoadImages
    \/ SidewalkSelectLabel
    \/ SidewalkLeftClick
    \/ SidewalkLoadAnnotationsManual
    \/ SidewalkSaveAnnotations

SpecSidewalk == SidewalkInit /\ [][SidewalkNext]_vars

SaysNotASidewalk(name) == Contains(Lower(name), NotASidewalk)

\* the annotation's own name, or the name of the catalog label with its id, says
\* 'not a sidewalk'
ClassifiedNotASidewalk(item) ==
    \/ SaysNotASidewalk(item.label_name)
    \/ \E i \in 1..Len(labels) :
           /\ labels[i].id = item.label_id
           /\ \A j \in 1..(i - 1) : labels[j].id # item.label_id
           /\ SaysNotASidewalk(labels[i].name)

SlabIndices == {i \in 1..Len(current_annotations) :
                   ~ClassifiedNotASidewalk(current_annotations[i])}

\* the last handler recomputed the counter on a loaded image
Recounted == arg.op \in {"load", "click", "manual"} /\ current_image # NoneV /\ counter # NoneV

\* C17: an annotation is classified 'not a sidewalk' exactly when its own name or
\* its catalog label's name contains 'not a sidewalk' in any case; such annotations
\* are left out of the slab total and of the score counts, get an empty slab
\* identifier when made by a click, and stay in the list that is drawn and saved.
C17_NotASidewalk ==
    /\ \A i \in 1..Len(current_annotations) :
           _is_not_sidewalk_annotation(current_annotations[i], labels)
               <=> ClassifiedNotASidewalk(current_annotations[i])
    /\ Recounted =>
           /\ counter.slab_total = Cardinality(SlabIndices)
           /\ counter.green_total + counter.yellow_total + counter.orange_total
                  + counter.red_total <= Cardinality(SlabIndices)
           /\ counter.annotations = current_annotations
           /\ \A i \in 1..Len(current_annotations) :
                  (current_annotations[i].label_id = 5 /\ labels = DefaultLabels)
                      => 5 \in DOMAIN icon_cache
    /\ (arg.op = "click" /\ Len(current_annotations) > Len(arg.before)) =>
           (ClassifiedNotASidewalk(current_annotations[Len(current_annotations)])
               => current_annotations[Len(current_annotations)].slab_id = <<>>)
    /\ (arg.op = "save" /\ current_image # NoneV) =>
           /\ Len(xml_files[<<"a">>].nodes) = Len(current_annotations)
           /\ \A i \in 1..Len(current_annotations) :
                  /\ xml_files[<<"a">>].nodes[i]["LabelID"] =
                         IntToStr(current_annotations[i].label_id)
                  /\ xml_files[<<"a">>].nodes[i]["LabelName"] =
                         XmlEscape(current_annotations[i].label_name)

\* a list made of a 'not a sidewalk' click and a counted click has been saved
C17_Witness ==
    /\ arg.op = "save" /\ current_image # NoneV
    /\ Len(current_annotations) = 2
    /\ Cardinality(SlabIndices) = 1
    /\ counter.slab_total = 1
    /\ \E i \in 1..2 : /\ current_annotations[i].slab_id = <<>>
                        /\ current_annotations[i].label_id = 5
    /\ Len(xml_files[<<"a">>].nodes) = 2

\* a loaded annotation is 'not a sidewalk' by its own name under the id of Good
OwnNameClassifies ==
    /\ arg.op = "manual" /\ Len(current_annotations) = 1
    /\ current_annotations[1].label_id = 1
    /\ ClassifiedNotASidewalk(current_annotations[1])
    /\ counter.slab_total = 0

-----------------------------------------------------------------------------
(* SpecTags: images with GeoTIFF tags of every shape are loaded and pixels are
   converted *)

MaxKeys == 2          \* most entries in a geo-key directory

\* model-transform tags (34264): absent, 16 coefficients, 12, and 17
TagTransforms ==
    {<<>>,
     ModelTransformTag(RInt(2), RInt(1), TranslateX, RInt(0), RInt(-1), TranslateY),
     SubSeq(ModelTransformTag(RInt(2), RInt(1), TranslateX, RInt(0), RInt(-1), TranslateY), 1, 12),
     ModelTransformTag(RInt(3), RInt(0), TranslateY, RInt(1), RInt(2), TranslateX) \o <<RInt(7)>>}

\* tie-point tags (33922): absent, (i, j, k, x, y, z) at the origin pixel and at
\* pixel (1, 2), five values, and two tie points
TagTiepoints ==
    {<<>>,
     <<RInt(0), RInt(0), RInt(0), RInt(5), RInt(7), RInt(0)>>,
     <<RInt(1), RInt(2), RInt(0), Rat(1, 2), RInt(-3), RInt(0)>>,
     <<RInt(1), RInt(2), RInt(0), Rat(1, 2), RInt(-3)>>,
     <<RInt(1), RInt(2), RInt(0), Rat(1, 2), RInt(-3), RInt(0),
       RInt(4), RInt(4), RInt(0), RInt(9), RInt(9), RInt(0)>>}

\* pixel-scale tags (33550): absent, (sx, sy, sz), (sx, sy) and (sx)
TagScales ==
    {<<>>, <<RInt(2), Rat(1, 2), RInt(0)>>, <<RInt(3), RInt(1)>>, <<RInt(2)>>}

\* geo-key entries (key id, location, count, value): projected and geographic
\* in-line, projected with value 0, projected and geographic not in-line, another key
KeyEntries ==
    {<<3072, 0, 1, 32617>>, <<2048, 0, 1, 4326>>, <<3072, 0, 1, 0>>,
     <<3072, 34737, 1, 26917>>, <<2048, 0, 2, 4269>>, <<1024, 0, 1, 1>>,
     <<2048, 0, 1, 9999>>}

RECURSIVE Flatten(_)
Flatten(seqs) == IF seqs = <<>> THEN <<>> ELSE Head(seqs) \o Flatten(Tail(seqs))

\* directories whose header announces as many entries as follow, fewer, or more,
\* the same with the last value cut off, and directories shorter than a header
WholeKeyDirs ==
    {<<1, 1, 0, n>> \o Flatten(es) :
        es \in SeqUpTo(KeyEntries, MaxKeys), n \in 0..(MaxKeys + 1)}
TagKeyDirs ==
    WholeKeyDirs \cup {SubSeq(d, 1, Len(d) - 1) : d \in WholeKeyDirs} \cup {<<>>}

TagImage(model_transform, tiepoints, scales, geokey_dir) ==
    [stem |-> <<"a">>, opens |-> TRUE,
     image |-> [size |-> <<4, 4>>, has_tags |-> TRUE,
                tag_v2 |-> [t34264 |-> model_transform, t33922 |-> tiepoints,
                            t33550 |-> scales, t34735 |-> geokey_dir]]]

\* every shape of the transform tags under three directories, and every directory
\* under one transform
TagFiles ==
    {TagImage(m, t, sc, g) :
        m \in TagTransforms, t \in TagTiepoints, sc \in TagScales,
        g \in {<<>>, <<1, 1, 0, 1, 3072, 0, 1, 32617>>, <<1, 1, 0, 1, 3072, 0, 1, 26917>>}}
    \cup {TagImage(<<>>, <<RInt(0), RInt(0), RInt(0), RInt(5), RInt(7), RInt(0)>>,
                    <<RInt(3), RInt(1)>>, g) : g \in TagKeyDirs}
    \cup {ViewFile}

TagsInit ==
    /\ \E pyproj \in BOOLEAN :
           SessionIs([Constructed(DefaultLabels) EXCEPT !.Transformer = pyproj])
    /\ arg = [op |-> "none"]
    /\ ret = NoneV

TagsLoadImages ==
    /\ current_image = NoneV
    /\ \E file \in TagFiles : Becomes(load_images(Now, <<file>>))
    /\ arg' = [op |-> "load"]
    /\ UNCHANGED ret

TagsPixelToLatLon ==
    /\ current_image # NoneV
    /\ ret = NoneV
    /\ \E p \in QueryPixels, raises \in BOOLEAN :
           /\ ret' = Some(_pixel_to_latlon(Cur, p[1], p[2], raises))
           /\ arg' = [op |-> "pixel", col |-> p[1], row |-> p[2], raises |-> raises]
    /\ UNCHANGED session

TagsNext == TagsLoadImages \/ TagsPixelToLatLon

SpecTags == TagsInit /\ [][TagsNext]_vars

\* the tags of the image that is loaded
Tagged == current_image # NoneV /\ current_image.has_tags
Tags == current_image.tag_v2

\* C18: the affine transform is (m0, m1, m3, m4, m5, m7) when the model-transform
\* tag has at least 16 coefficients, whatever the other tags; otherwise
\* (sx, 0, x - i*sx, 0, -sy, y + j*sy) when the tie-point tag has at least 6 values
\* and the pixel-scale tag at least 2; otherwise None.
C18_AffineFromTags ==
    Tagged =>
        /\ Len(Tags.t34264) >= 16 =>
               current_geo_affine = <<Tags.t34264[1], Tags.t34264[2], Tags.t34264[4],
                                      Tags.t34264[5], Tags.t34264[6], Tags.t34264[8]>>
        /\ (Len(Tags.t34264) < 16 /\ Len(Tags.t33922) >= 6 /\ Len(Tags.t33550) >= 2) =>
               current_geo_affine =
                   <<Tags.t33550[1], <<0, 1>>,
                     RSub(Tags.t33922[4], RMul(Tags.t33922[1], Tags.t33550[1])),
                     <<0, 1>>, RNeg(Tags.t33550[2]),
                     RAdd(Tags.t33922[5], RMul(Tags.t33922[2], Tags.t33550[2]))>>
        /\ (Len(Tags.t34264) < 16 /\ (Len(Tags.t33922) < 6 \/ Len(Tags.t33550) < 2)) =>
               current_geo_affine = NoneV

\* a model transform was taken although tie points and scales were present too
C18_Witness ==
    /\ Tagged
    /\ Len(Tags.t34264) = 16 /\ Len(Tags.t33922) = 6 /\ Len(Tags.t33550) = 3
    /\ current_geo_affine = <<<<2, 1>>, <<1, 1>>, TranslateX, <<0, 1>>, <<-1, 1>>, TranslateY>>

\* a tie point at pixel (1, 2) and scales gave the transform
TiepointTransformTaken ==
    /\ Tagged
    /\ Len(Tags.t34264) = 12
    /\ current_geo_affine = <<<<2, 1>>, <<0, 1>>, <<-3, 2>>, <<0, 1>>, <<-1, 2>>, <<-2, 1>>>>

\* the entries of the directory that are read: announced by the key count and
\* complete (0-based indices)
EntriesRead(values) ==
    {idx \in 0..(Len(values) \div 4) :
        idx < values[4] /\ 4 + 4 * idx + 3 < Len(values)}
KeyIdOf(values, idx) == values[4 + 4 * idx + 1]
ValueOf(values, idx) == values[4 + 4 * idx + 4]
InLine(values, idx) == values[4 + 4 * idx + 2] = 0 /\ values[4 + 4 * idx + 3] = 1
InLineEntries(values, key) ==
    {idx \in EntriesRead(values) : InLine(values, idx) /\ KeyIdOf(values, idx) = key}
LastOf(indices) == CHOOSE idx \in indices : \A other \in indices : other <= idx

\* C19 as stated: the code is the value of an in-line projected entry whenever one
\* is among the entries read, otherwise the value of an in-line geographic entry,
\* otherwise None.
C19_ProjectedWhenPresent ==
    (Tagged /\ Len(Tags.t34735) >= 4) =>
        IF InLineEntries(Tags.t34735, 3072) # {}
        THEN \E idx \in InLineEntries(Tags.t34735, 3072) :
                 current_geo_epsg = Some(ValueOf(Tags.t34735, idx))
        ELSE IF InLineEntries(Tags.t34735, 2048) # {}
        THEN \E idx \in InLineEntries(Tags.t34735, 2048) :
                 current_geo_epsg = Some(ValueOf(Tags.t34735, idx))
        ELSE current_geo_epsg = NoneV

\* the value an in-line key gives: that of its last entry read, when positive
KeyValue(values, key) ==
    IF InLineEntries(values, key) # {}
       /\ ValueOf(values, LastOf(InLineEntries(values, key))) > 0
    THEN Some(ValueOf(values, LastOf(InLineEntries(values, key))))
    ELSE NoneV

\* C19 amended: the code is the value of the last in-line projected entry read when
\* that value is positive, otherwise the value of the last in-line geographic entry
\* read when that is positive, otherwise None; a directory of fewer than 4 values
\* gives None.
C19_PositiveProjectedFirst ==
    Tagged =>
        current_geo_epsg =
            IF Len(Tags.t34735) < 4 THEN NoneV
            ELSE IF KeyValue(Tags.t34735, 3072) # NoneV THEN KeyValue(Tags.t34735, 3072)
            ELSE KeyValue(Tags.t34735, 2048)

\* the geographic code was taken past a projected entry that is not in-line
C19_Witness ==
    /\ Tagged
    /\ Tags.t34735 = <<1, 1, 0, 2, 3072, 34737, 1, 26917, 2048, 0, 1, 4326>>
    /\ current_geo_epsg = Some(4326)

\* an entry past the key count, and an entry cut short, were not read
UnannouncedEntryIgnored ==
    /\ Tagged
    /\ Tags.t34735 = <<1, 1, 0, 1, 2048, 0, 1, 4326, 3072, 0, 1, 32617>>
    /\ current_geo_epsg = Some(4326)
CutEntryIgnored ==
    /\ Tagged
    /\ Tags.t34735 = <<1, 1, 0, 2, 2048, 0, 1, 9999, 3072, 0, 1>>
    /\ current_geo_epsg = Some(9999)

\* no converter could be built for the code of the image
ConverterFailed ==
    /\ Tagged
    /\ current_geo_epsg \notin {NoneV, Some(4326)}
    /\ ~Transformer \/ current_geo_epsg[1] \in {9999, 26917}

\* C20: a converter exists only for a code that is set and is not 4326; when the
\* code is set and not 4326 and the converter cannot be built (from_crs raises, or
\* pyproj is missing), the converter is None, the affine transform of the tags is
\* still set, and every pixel conversion returns None.
C20_ConverterFailureSwallowed ==
    /\ current_to_wgs84_transformer # NoneV =>
           current_geo_epsg \notin {NoneV, Some(4326)}
    /\ ConverterFailed =>
           /\ current_to_wgs84_transformer = NoneV
           /\ dialog = NoDialog
           /\ Len(Tags.t34264) >= 16 =>
                  current_geo_affine = <<Tags.t34264[1], Tags.t34264[2], Tags.t34264[4],
                                         Tags.t34264[5], Tags.t34264[6], Tags.t34264[8]>>
           /\ (Len(Tags.t34264) < 16 /\ Len(Tags.t33922) >= 6 /\ Len(Tags.t33550) >= 2) =>
                  current_geo_affine # NoneV
           /\ arg.op = "pixel" => ret = Some(NoneV)

\* a pixel of an image with a transform and a code without converter gave None
C20_Witness ==
    /\ ConverterFailed
    /\ current_geo_affine # NoneV
    /\ current_geo_epsg = Some(26917)
    /\ Transformer
    /\ arg.op = "pixel" /\ ret = Some(NoneV)

-----------------------------------------------------------------------------
(* SpecPan: images of two sizes are switched, zoomed, dragged, resized and
   clicked *)

MaxPanWheel == 1     \* most wheel events that change the zoom after a load

\* a second image, wider and lower than the first
WideFile ==
    [stem |-> <<"b">>, opens |-> TRUE,
     image |-> [size |-> <<8, 2>>, has_tags |-> FALSE, tag_v2 |-> NoneV]]

PanWheelPoint == <<1, 1>>
PanClickPoint == <<1, 0>>

PanInit ==
    /\ SessionIs(Constructed(DefaultLabels))
    /\ arg = [op |-> "none"]
    /\ ret = NoneV

PanLoadImages ==
    /\ current_image = NoneV
    /\ Becomes(load_images(Now, <<ViewFile, WideFile>>))
    /\ arg' = [op |-> "load"]
    /\ UNCHANGED ret

PanNextImage ==
    /\ Becomes(next_image(Now))
    /\ arg' = [op |-> "next"]
    /\ UNCHANGED ret

PanPrevImage ==
    /\ Becomes(prev_image(Now))
    /\ arg' = [op |-> "prev"]
    /\ UNCHANGED ret

PanMouseWheel ==
    /\ zoom[2] < Pow10(MaxPanWheel)
    /\ \E delta \in WheelDeltas :
           Becomes(_on_mousewheel(Now, delta, PanWheelPoint[1], PanWheelPoint[2]))
    /\ arg' = [op |-> "wheel"]
    /\ UNCHANGED ret

\* the middle button is pressed at the canvas origin; the drags that follow move
\* away from it and back
PanStartPan ==
    /\ Becomes(_start_pan(Now, 0, 0))
    /\ arg' = [op |-> "press"]
    /\ UNCHANGED ret

\* one point is placed on an image that carries none
PanLeftClick ==
    /\ current_annotations = <<>>
    /\ Becomes(_on_left_click(Now, PanClickPoint[1], PanClickPoint[2], FALSE))
    /\ arg' = [op |-> "click", ex |-> PanClickPoint[1], ey |-> PanClickPoint[2],
               before |-> ViewBefore, placed |-> Len(current_annotations)]
    /\ UNCHANGED ret

PanNext ==
    \/ PanLoadImages
    \/ PanNextImage
    \/ PanPrevImage
    \/ PanMouseWheel
    \/ PanStartPan
    \/ ViewDragPan
    \/ ViewConfigure
    \/ ViewRunHqRender
    \/ PanLeftClick

SpecPan == PanInit /\ [][PanNext]_vars

\* the span of the image the canvas shows on an axis: max(canvas, 1) / zoom
Visible(canvas_dim, z) == RDiv(RInt(IF canvas_dim > 1 THEN canvas_dim ELSE 1), z)

\* the image is centred on the axis
Centred(origin, canvas_dim, z, img_dim) ==
    /\ RLe(RInt(img_dim), Visible(canvas_dim, z))
    /\ RAdd(origin, origin) = RNeg(RSub(Visible(canvas_dim, z), RInt(img_dim)))

\* the image is larger than the visible span and the origin keeps the span inside
Inside(origin, canvas_dim, z, img_dim) ==
    /\ RLt(Visible(canvas_dim, z), RInt(img_dim))
    /\ RLe(RInt(0), origin)
    /\ RLe(origin, RSub(RInt(img_dim), Visible(canvas_dim, z)))

PanClamped(v) ==
    /\ \/ Centred(v.view_x, v.canvas[1], v.zoom, current_image.size[1])
       \/ Inside(v.view_x, v.canvas[1], v.zoom, current_image.size[1])
    /\ \/ Centred(v.view_y, v.canvas[2], v.zoom, current_image.size[2])
       \/ Inside(v.view_y, v.canvas[2], v.zoom, current_image.size[2])

\* the last event was a left click that placed an annotation
PanClicked ==
    arg.op = "click" /\ Len(current_annotations) > arg.placed

\* C21: with an image loaded, after every handler (each ends in a render) the pan
\* origin on each axis is -(visible - image_dim)/2 when visible = canvas/zoom is at
\* least the image dimension and lies in [0, image_dim - visible] otherwise,
\* whatever drags, zooms, resizes and image switches came before; and a click
\* converts its screen point with that clamped origin.
C21_PanClamped ==
    /\ current_image # NoneV => PanClamped(ViewBefore)
    /\ PanClicked =>
           /\ PanClamped(arg.before)
           /\ current_annotations[Len(current_annotations)].x =
                  PixelUnder(arg.before.view_x, arg.ex, arg.before.zoom)
           /\ current_annotations[Len(current_annotations)].y =
                  PixelUnder(arg.before.view_y, arg.ey, arg.before.zoom)

\* a drag on the wide image at a zoom other than 1 left it centred on one axis and
\* inside on the other, away from both ends
C21_Witness ==
    /\ current_image # NoneV
    /\ arg.op = "drag"
    /\ zoom # <<1, 1>>
    /\ image_index = 1
    /\ Inside(view_x, canvas[1], zoom, current_image.size[1])
    /\ RLt(RInt(0), view_x)
    /\ RLt(view_x, RSub(RInt(current_image.size[1]), Visible(canvas[1], zoom)))
    /\ Centred(view_y, canvas[2], zoom, current_image.size[2])

\* a click after a resize and a switch placed a point through a pan origin that
\* is not the origin of the image
ClickThroughClampedPan ==
    /\ PanClicked
    /\ arg.before.view_x # <<0, 1>>
    /\ arg.before.canvas # CanvasSize
    /\ image_index = 1

-----------------------------------------------------------------------------
(* SpecZoom: the wheel is turned at the ends of the zoom range and images are
   loaded *)

MaxZoomWheel == 3    \* most wheel events that change the zoom away from 1, 12 or 0.0001

\* the zooms the wheel leaves the session at: 1 after a load, 12 once it has been
\* turned in 27 times (1.1^27 > 12) and 0.0001 once it has been turned out 88 times
\* (0.9^88 < 0.0001)
RestZooms == {<<1, 1>>, <<12, 1>>, <<1, 10000>>}

\* the session after load_images and wheel events that left the zoom at z
ZoomedTo(z) ==
    redraw([load_images(Constructed(DefaultLabels), <<ViewFile, WideFile>>)
               EXCEPT !.zoom = z], TRUE)

ZoomInit ==
    /\ \E z \in RestZooms : SessionIs(ZoomedTo(z))
    /\ arg = [op |-> "none"]
    /\ ret = NoneV

\* the denominator of the zoom counts the wheel events since it was at rest
ZoomMouseWheel ==
    /\ \/ zoom[2] < Pow10(MaxZoomWheel)
       \/ RLt(zoom, <<1, 1000>>) /\ zoom[2] < 10000 * Pow10(MaxZoomWheel)
    /\ \E delta \in WheelDeltas :
           /\ Becomes(_on_mousewheel(Now, delta, PanWheelPoint[1], PanWheelPoint[2]))
           /\ arg' = [op |-> "wheel", delta |-> delta, before |-> ViewBefore]
    /\ UNCHANGED ret

ZoomLoadImages ==
    /\ \E files \in {<<ViewFile>>, <<WideFile, ViewFile>>} :
           Becomes(load_images(Now, files))
    /\ arg' = [op |-> "load"]
    /\ UNCHANGED ret

ZoomNextImage ==
    /\ Becomes(next_image(Now))
    /\ arg' = [op |-> "next"]
    /\ UNCHANGED ret

ZoomPrevImage ==
    /\ Becomes(prev_image(Now))
    /\ arg' = [op |-> "prev"]
    /\ UNCHANGED ret

ZoomNext == ZoomMouseWheel \/ ZoomLoadImages \/ ZoomNextImage \/ ZoomPrevImage

SpecZoom == ZoomInit /\ [][ZoomNext]_vars

\* the zoom a wheel event asks for: 1.1 or 0.9 times the zoom before
WheelTarget ==
    RMul(arg.before.zoom, IF arg.delta > 0 THEN <<11, 10>> ELSE <<9, 10>>)

\* C22: 0.0001 <= zoom <= 12 in every state; a wheel event whose factor would take
\* the zoom out of the range leaves it at the bound; a wheel event that does not
\* change the zoom leaves the pan origin as it was.
C22_ZoomInRange ==
    /\ RLe(<<1, 10000>>, zoom) /\ RLe(zoom, <<12, 1>>)
    /\ arg.op = "wheel" =>
           /\ RLt(<<12, 1>>, WheelTarget) => zoom = <<12, 1>>
           /\ RLt(WheelTarget, <<1, 10000>>) => zoom = <<1, 10000>>
           /\ zoom = arg.before.zoom =>
                  view_x = arg.before.view_x /\ view_y = arg.before.view_y

\* a wheel event at zoom 11.88 asked for 13.068 and left the zoom at 12
C22_Witness ==
    /\ arg.op = "wheel"
    /\ arg.before.zoom = <<297, 25>>
    /\ arg.delta > 0
    /\ zoom = <<12, 1>>

\* a wheel event at the lower bound changed neither zoom nor pan origin
WheelAtLowerBound ==
    /\ arg.op = "wheel"
    /\ arg.before.zoom = <<1, 10000>>
    /\ arg.delta < 0
    /\ zoom = <<1, 10000>>
    /\ view_x = arg.before.view_x /\ view_y = arg.before.view_y

\* a load at the upper bound brought the zoom back to 1
LoadResetsZoom ==
    /\ arg.op \in {"load", "next", "prev"}
    /\ zoom = <<1, 1>>
    /\ image_index = 1

-----------------------------------------------------------------------------
(* SpecSettle: the session of SpecSession with the Tk main loop running: a timer
   callback that stays in the queue is run *)

\* the step of SessionTimerFires as the event record shows it: a callback of the
\* queue has run.  Tk runs a callback that stays in its queue once the 90 ms are over.
TimerCallbackRuns ==
    \E job \in tk_after : arg' = [op |-> "hq", job |-> job, slot |-> hq_render_job]

SpecSettle == SessionInit /\ [][SessionNext]_vars /\ WF_arg(TimerCallbackRuns)

\* a preview render has left a job in the slot
JobPending == current_image # NoneV /\ hq_render_job # NoneV

\* the timer callback was the last handler to run and has left nothing pending
RenderedOnce == arg.op = "hq" /\ hq_render_job = NoneV /\ tk_after = {}

\* C23: a job left pending by a preview render eventually fires and the
\* high-quality render runs; when the callback returns no job is pending (the
\* high-quality render schedules none), so it runs once and not again until an
\* interaction renders a preview.
C23_SettlesOnce ==
    /\ [](arg.op = "hq" => hq_render_job = NoneV /\ tk_after = {})
    /\ JobPending ~> RenderedOnce

\* the job of the preview render of a wheel event has fired and none is pending
C23_Witness ==
    /\ RenderedOnce
    /\ current_image # NoneV
    /\ zoom # <<1, 1>>

-----------------------------------------------------------------------------
(* SpecSwitch: lists of images with and without tags, records and readable
   content are loaded and stepped through, clicked and saved *)

MaxSwitchAnn == 1    \* longest annotation list a click adds to

\* an image with a model transform and a projected code, one with tie points and
\* code 4326, and a file Image.open rejects
ProjectedFile ==
    [TagImage(ModelTransformTag(RInt(2), RInt(0), TranslateX, RInt(0), RInt(-1), TranslateY),
              <<>>, <<>>, <<1, 1, 0, 1, 3072, 0, 1, 32617>>) EXCEPT !.stem = <<"c">>]
GeographicFile ==
    [TagImage(<<>>, <<RInt(0), RInt(0), RInt(0), RInt(5), RInt(7), RInt(0)>>,
              <<RInt(3), RInt(1)>>, <<1, 1, 0, 1, 2048, 0, 1, 4326>>) EXCEPT !.stem = <<"d">>]
BrokenFile == [stem |-> <<"e">>, opens |-> FALSE, image |-> NoneV]

SwitchFiles == {ViewFile, WideFile, ProjectedFile, GeographicFile, BrokenFile}

\* the selections of the file dialog
SwitchLists == {<<f>> : f \in SwitchFiles} \cup {<<f, g>> : f, g \in SwitchFiles}

\* the records on disk at the start: one entry beside image a, a record that does
\* not parse beside image c
SwitchRecords ==
    (<<"a">> :> RecordFile(<<BaseNode>>))
        @@ (<<"c">> :> RecordFile(<<[BaseNode EXCEPT !["X"] = <<"a", "b", "c">>]>>))

SwitchInit ==
    /\ SessionIs([Constructed(DefaultLabels) EXCEPT !.xml_files = SwitchRecords])
    /\ arg = [op |-> "none"]
    /\ ret = NoneV

\* the event record of a switch: the file it turns to, and whether that opened
SwitchEvent(op, moved, target, before) ==
    [op |-> op, moved |-> moved, target |-> target, before |-> before]

SwitchLoadImages ==
    /\ \E files \in SwitchLists :
           /\ Becomes(load_images(Now, files))
           /\ arg' = SwitchEvent("load", TRUE, files[1], current_annotations)
    /\ UNCHANGED ret

SwitchNextImage ==
    /\ Becomes(next_image(Now))
    /\ arg' = IF image_index < Len(image_paths) - 1
              THEN SwitchEvent("next", TRUE, image_paths[image_index + 2], current_annotations)
              ELSE SwitchEvent("next", FALSE, NoneV, current_annotations)
    /\ UNCHANGED ret

SwitchPrevImage ==
    /\ Becomes(prev_image(Now))
    /\ arg' = IF image_index > 0
              THEN SwitchEvent("prev", TRUE, image_paths[image_index], current_annotations)
              ELSE SwitchEvent("prev", FALSE, NoneV, current_annotations)
    /\ UNCHANGED ret

SwitchLeftClick ==
    /\ Len(current_annotations) <= MaxSwitchAnn
    /\ Becomes(_on_left_click(Now, 1, 0, FALSE))
    /\ arg' = [op |-> "click"]
    /\ UNCHANGED ret

\* the record is written while no record lies beside the image
SwitchSaveAnnotations ==
    /\ current_image_path # NoneV => current_image_path.stem \notin DOMAIN xml_files
    /\ Becomes(save_annotations(Now))
    /\ arg' = [op |-> "save"]
    /\ UNCHANGED ret

SwitchNext ==
    \/ SwitchLoadImages
    \/ SwitchNextImage
    \/ SwitchPrevImage
    \/ SwitchLeftClick
    \/ SwitchSaveAnnotations

SpecSwitch == SwitchInit /\ [][SwitchNext]_vars

\* the last handler turned to a file and opened it
Switched == arg.op \in {"load", "next", "prev"} /\ arg.moved /\ arg.target.opens

\* what the record beside the image holds: its entries when it reads, else nothing
OwnRecord ==
    IF current_image_path.stem \in DOMAIN xml_files
       /\ load_annotations_xml(xml_files[current_image_path.stem]).ok
    THEN load_annotations_xml(xml_files[current_image_path.stem]).doc.annotations
    ELSE <<>>

\* the georeference the tags of the image give
OwnGeoreference ==
    IF ~current_image.has_tags
    THEN /\ current_geo_affine = NoneV
         /\ current_geo_epsg = NoneV
         /\ current_to_wgs84_transformer = NoneV
    ELSE /\ current_geo_affine = AffineFromTags(current_image.tag_v2)
         /\ current_geo_epsg = _extract_epsg_from_geotiff(current_image.tag_v2)
         /\ current_to_wgs84_transformer =
                IF current_geo_epsg = Some(32617)
                THEN [units_per_degree |-> UnitsPerDegree(32617)] ELSE NoneV

\* C24: after a switch that opened its file, the image and its path are the new
\* ones, the annotation list is what the new image's own record holds (empty when
\* there is none or it does not read), affine transform, code and converter are
\* those of the new image's tags (None without tags), the archive bounds are
\* None and the view is back at zoom 1.
C24_SwitchReplacesSession ==
    Switched =>
        /\ current_image_path = arg.target
        /\ current_image = arg.target.image
        /\ current_annotations = OwnRecord
        /\ OwnGeoreference
        /\ current_georef_bounds = NoneV
        /\ zoom = <<1, 1>>

\* from a georeferenced image carrying a clicked point the session turned to an
\* image without tags and without record
C24_Witness ==
    /\ Switched
    /\ arg.op = "next"
    /\ arg.before # <<>>
    /\ image_paths[1].opens /\ image_paths[1].image.has_tags
    /\ ~current_image.has_tags
    /\ current_image_path.stem = <<"b">>
    /\ current_annotations = <<>>
    /\ current_geo_affine = NoneV

\* the session turned to an image whose record reads
RecordReadOnSwitch ==
    /\ Switched
    /\ arg.op = "prev"
    /\ current_image_path.stem = <<"a">>
    /\ Len(current_annotations) = 1
\* the session turned to a tagged image whose record does not read
BadRecordOnSwitch ==
    /\ Switched
    /\ arg.before # <<>>
    /\ current_image_path.stem = <<"c">>
    /\ current_geo_epsg = Some(32617)
    /\ current_annotations = <<>>
    /\ dialog = "Failed to load annotations"

\* C27 as stated: whenever the list is non-empty, 0 <= image_index < len(image_paths)
\* and the image shown and annotated is image_paths[image_index], also after steps
\* in which the file did not open.
C27_IndexNamesCurrentImage ==
    image_paths # <<>> =>
        /\ 0 <= image_index /\ image_index < Len(image_paths)
        /\ current_image_path # NoneV =>
               current_image_path = image_paths[image_index + 1]

\* the part that holds: the index stays within the list
IndexWithinList ==
    image_paths # <<>> => 0 <= image_index /\ image_index < Len(image_paths)

\* next_image on a file that does not open left the index on it and the image
\* before it on the canvas
IndexAheadOfImage ==
    /\ arg.op = "next" /\ arg.moved /\ ~arg.target.opens
    /\ image_index = 1
    /\ current_image_path = image_paths[1]
    /\ dialog = "Failed to open image"

-----------------------------------------------------------------------------
(* SpecCatalog: the catalog is edited and saved, labels are selected by radio
   button and by key, and the image is clicked *)

\* a catalog in which label 1 has another icon, label 3 another key, no icon file
\* and is disabled, and the other labels are deleted
RetouchedLabels ==
    <<[id |-> 1, key |-> "1", name |-> <<"G", "o", "o", "d">>, severity_code |-> "1",
       icon |-> <<"minor", "png">>, enabled |-> TRUE],
      [id |-> 3, key |-> "9", name |-> <<"M", "o", "d", "e", "r", "a", "t", "e">>,
       severity_code |-> "3", icon |-> <<"moderate", "bmp">>, enabled |-> FALSE]>>

CatalogChoices == {DefaultLabels, EditedLabels, RetouchedLabels}

CatalogInit ==
    /\ SessionIs(Constructed(DefaultLabels))
    /\ arg = [op |-> "none"]
    /\ ret = NoneV

CatalogLoadImages ==
    /\ current_image = NoneV
    /\ Becomes(load_images(Now, <<ViewFile>>))
    /\ arg' = [op |-> "load"]
    /\ UNCHANGED ret

CatalogLabelsSaved ==
    /\ \E ls \in CatalogChoices : Becomes(_on_labels_saved(Now, ls))
    /\ arg' = [op |-> "labels"]
    /\ UNCHANGED ret

\* a radio button of the panel: one per enabled label
CatalogSelectLabel ==
    /\ \E i \in 1..Len(labels) :
           /\ labels[i].enabled
           /\ Becomes(_select_label_from_ui(Now, labels[i].id))
    /\ arg' = [op |-> "radio"]
    /\ UNCHANGED ret

\* a key that is bound is pressed
CatalogShortcut ==
    /\ \E key \in DOMAIN key_bindings :
           /\ Becomes(ShortcutHandler(Now, key_bindings[key]))
           /\ arg' = [op |-> "key", key |-> key]
    /\ UNCHANGED ret

CatalogLeftClick ==
    /\ Len(current_annotations) < MaxAnn
    /\ Becomes(_on_left_click(Now, 1, 0, FALSE))
    /\ arg' = [op |-> "click", before |-> current_annotations]
    /\ UNCHANGED ret

CatalogNext ==
    \/ CatalogLoadImages
    \/ CatalogLabelsSaved
    \/ CatalogSelectLabel
    \/ CatalogShortcut
    \/ CatalogLeftClick

SpecCatalog == CatalogInit /\ [][CatalogNext]_vars

\* the labels of the current catalog with identifier id
CatalogLabels(id) == {labels[i] : i \in {j \in 1..Len(labels) : labels[j].id = id}}

\* C25: the icon cache is empty when _load_labels_from_disk returns, whatever the
\* session and the catalog; and every key of the cache is the id of a label of the
\* current catalog whose icon file is the bitmap cached.
C25_CacheOfCurrentCatalog ==
    /\ \A ls \in CatalogChoices : _load_labels_from_disk(Cur, ls).icon_cache = <<>>
    /\ \A id \in DOMAIN icon_cache :
           \E label \in CatalogLabels(id) :
               icon_cache[id] \in {label.icon, <<label.icon[1], "bmp">>,
                                   <<label.icon[1], "png">>}

\* after a save the annotation of label 1 is drawn with the icon the new catalog
\* names, where the cache held the old one
C25_Witness ==
    /\ arg.op = "labels"
    /\ labels = RetouchedLabels
    /\ 1 \in DOMAIN icon_cache
    /\ icon_cache[1] = <<"minor", "png">>

\* the label a left click places
Selected == _selected_label(labels, selected_label_id)

\* the last handler was a click that placed an annotation
CatalogClicked ==
    arg.op = "click" /\ Len(current_annotations) > Len(arg.before)

\* C28 as stated: the label a left click would place is none or an enabled label
\* of the current catalog, and no click creates an annotation with a label that
\* is disabled or not in the catalog.
C28_PlacedLabelEnabled ==
    /\ Selected # NoneV => Selected.enabled
    /\ CatalogClicked =>
           \E label \in CatalogLabels(current_annotations[Len(current_annotations)].label_id) :
               label.enabled

\* the part that holds: a label that is not in the catalog is never placed
PlacedLabelInCatalog ==
    CatalogClicked =>
        CatalogLabels(current_annotations[Len(current_annotations)].label_id) # {}

\* the key of a disabled label selected it and a click placed it
DisabledLabelPlaced ==
    /\ CatalogClicked
    /\ labels = EditedLabels
    /\ current_annotations[Len(current_annotations)].label_id = 5
    /\ ~Selected.enabled

\* a key still bound to a deleted label selects nothing
StaleKeySelectsNothing ==
    /\ arg.op = "key" /\ arg.key = "4"
    /\ labels = RetouchedLabels
    /\ selected_label_id = Some(4)
    /\ Selected = NoneV

-----------------------------------------------------------------------------
(* SpecSegment: images whose names have and have no hyphen are annotated by
   clicks and right-clicks, from an empty list *)

HyphenFile == [ViewFile EXCEPT !.stem = <<"a", "-", "b">>]
NumberedFile == [ViewFile EXCEPT !.stem = <<"a", "-", "2">>]
SegmentFiles == {ViewFile, HyphenFile, NumberedFile}

SegmentInit ==
    /\ SessionIs(Constructed(DefaultLabels))
    /\ arg = [op |-> "none"]
    /\ ret = NoneV

SegmentLoadImages ==
    /\ current_image = NoneV
    /\ \E file \in SegmentFiles : Becomes(load_images(Now, <<file>>))
    /\ arg' = [op |-> "load"]
    /\ UNCHANGED ret

\* the radio buttons of Good and Not a Sidewalk
SegmentSelectLabel ==
    /\ \E value \in {1, 5} : Becomes(_select_label_from_ui(Now, value))
    /\ arg' = [op |-> "radio"]
    /\ UNCHANGED ret

SegmentLeftClick ==
    /\ current_image_path # NoneV
    /\ Len(current_annotations) < MaxAnn
    /\ next_slab_sequence(current_annotations, current_image_path.stem) <= MaxSessionSeq
    /\ \E p \in ClickPoints : Becomes(_on_left_click(Now, p[1], p[2], FALSE))
    /\ arg' = [op |-> "click"]
    /\ UNCHANGED ret

SegmentRightClick ==
    /\ \E p \in ClickPoints : Becomes(_on_right_click(Now, p[1], p[2]))
    /\ arg' = [op |-> "remove"]
    /\ UNCHANGED ret

SegmentNext ==
    \/ SegmentLoadImages
    \/ SegmentSelectLabel
    \/ SegmentLeftClick
    \/ SegmentRightClick

SpecSegment == SegmentInit /\ [][SegmentNext]_vars

\* the non-empty slab identifiers of the list are pairwise distinct
SlabIdsDistinct ==
    \A i, j \in 1..Len(current_annotations) :
        (i # j /\ current_annotations[i].slab_id # <<>>) =>
            current_annotations[i].slab_id # current_annotations[j].slab_id

\* C26 as stated: after any clicks and right-clicks on a list that started empty,
\* the non-empty slab identifiers are pairwise distinct, whatever the segment name,
\* names with hyphens included.
C26_SlabIdsDistinct == SlabIdsDistinct

\* the part that holds: they are distinct when the name has no hyphen, so that the
\* text after the first hyphen of an identifier is its sequence number
DistinctWithoutHyphen ==
    (current_image_path # NoneV /\ current_image_path.stem = <<"a">>) => SlabIdsDistinct

\* two clicks on image a-b gave the same identifier twice
SameIdTwice ==
    /\ Len(current_annotations) = 2
    /\ current_annotations[1].slab_id =
           <<"a", "-", "b", "-", "0", "0", "0", "1", "-", "0", "0", "0", "0">>
    /\ current_annotations[2].slab_id = current_annotations[1].slab_id

\* on image a-2 the second and the third identifier both carry the number 3
NameNumberCounted ==
    /\ Len(current_annotations) = 2
    /\ current_annotations[1].slab_id =
           <<"a", "-", "2", "-", "0", "0", "0", "3", "-", "0", "0", "0", "0">>
    /\ current_annotations[2].slab_id = current_annotations[1].slab_id

\* two clicks on image a gave the numbers 1 and 2
NumbersInOrder ==
    /\ arg.op = "click"
    /\ current_image_path.stem = <<"a">>
    /\ Len(current_annotations) = 2
    /\ current_annotations[1].slab_id =
           <<"a", "-", "0", "0", "0", "1", "-", "0", "0", "0", "0">>
    /\ current_annotations[2].slab_id =
           <<"a", "-", "0", "0", "0", "2", "-", "0", "0", "0", "0">>
    /\ current_annotations[2].x # current_annotations[1].x

-----------------------------------------------------------------------------
(* SpecRemove: points are placed on a long and on a small image, near and far
   from each other, and right-clicked *)

\* an image 64 pixels long, and the canvas of the maximised window
LongFile ==
    [stem |-> <<"a">>, opens |-> TRUE,
     image |-> [size |-> <<64, 4>>, has_tags |-> FALSE, tag_v2 |-> NoneV]]
LongCanvas == <<64, 4>>

\* screen points of the clicks: 29 apart, and 32 apart
PlacePoints == {<<1, 1>>, <<30, 1>>, <<62, 1>>}
RemovePoints == {<<2, 1>>, <<26, 1>>, <<46, 1>>}

RemoveInit ==
    /\ SessionIs(Constructed(DefaultLabels))
    /\ arg = [op |-> "none"]
    /\ ret = NoneV

RemoveConfigure ==
    /\ canvas # LongCanvas
    /\ Becomes(OnConfigure(Now, LongCanvas[1], LongCanvas[2]))
    /\ arg' = [op |-> "configure"]
    /\ UNCHANGED ret

RemoveLoadImages ==
    /\ current_image = NoneV
    /\ \E file \in {LongFile, ViewFile} : Becomes(load_images(Now, <<file>>))
    /\ arg' = [op |-> "load"]
    /\ UNCHANGED ret

RemoveMouseWheel ==
    /\ zoom[2] < Pow10(MaxSessionWheel)
    /\ Becomes(_on_mousewheel(Now, 120, 0, 0))
    /\ arg' = [op |-> "wheel"]
    /\ UNCHANGED ret

\* the event record of a click: the list before it and the image point clicked
ClickEvent(op, p) ==
    [op |-> op, before |-> current_annotations,
     px |-> PixelUnder(view_x, p[1], zoom), py |-> PixelUnder(view_y, p[2], zoom),
     zoom |-> zoom, size |-> IF current_image = NoneV THEN <<0, 0>> ELSE current_image.size]

RemoveLeftClick ==
    /\ Len(current_annotations) < MaxAnn
    /\ next_slab_sequence(current_annotations, <<"a">>) <= MaxSessionSeq
    /\ \E p \in PlacePoints :
           /\ Becomes(_on_left_click(Now, p[1], p[2], FALSE))
           /\ arg' = ClickEvent("click", p)
    /\ UNCHANGED ret

RemoveRightClick ==
    /\ \E p \in RemovePoints :
           /\ Becomes(_on_right_click(Now, p[1], p[2]))
           /\ arg' = ClickEvent("remove", p)
    /\ UNCHANGED ret

RemoveNext ==
    \/ RemoveConfigure
    \/ RemoveLoadImages
    \/ RemoveMouseWheel
    \/ RemoveLeftClick
    \/ RemoveRightClick

SpecRemove == RemoveInit /\ [][RemoveNext]_vars

\* the squared distance of annotation i of the list before to the clicked point
Apart(i) ==
    RAdd(RMul(RSub(arg.before[i].x, arg.px), RSub(arg.before[i].x, arg.px)),
         RMul(RSub(arg.before[i].y, arg.py), RSub(arg.before[i].y, arg.py)))

\* the square of 24 screen pixels in image pixels
Reach == RMul(RDiv(<<24, 1>>, arg.zoom), RDiv(<<24, 1>>, arg.zoom))

\* the list is the one before without its entry k
Removed(k) ==
    current_annotations =
        SubSeq(arg.before, 1, k - 1) \o SubSeq(arg.before, k + 1, Len(arg.before))

\* the clicked image point lies outside [0, width) x [0, height)
Outside ==
    \/ RLt(arg.px, <<0, 1>>) \/ RLt(arg.py, <<0, 1>>)
    \/ RLe(RInt(arg.size[1]), arg.px) \/ RLe(RInt(arg.size[2]), arg.py)

\* C29: a right-click either leaves the list as it was, when it is empty or every
\* annotation is farther than 24/zoom image pixels from the clicked point, or
\* removes one annotation, one that no other is nearer than and that is within
\* 24/zoom; the others keep their fields and order.  A left click outside the
\* image adds nothing.
C29_RemovesNearestWithinReach ==
    /\ arg.op = "remove" =>
           \/ /\ current_annotations = arg.before
              /\ \A i \in 1..Len(arg.before) : RLt(Reach, Apart(i))
           \/ \E k \in 1..Len(arg.before) :
                  /\ Removed(k)
                  /\ RLe(Apart(k), Reach)
                  /\ \A i \in 1..Len(arg.before) : RLe(Apart(k), Apart(i))
    /\ (arg.op = "click" /\ Outside) => current_annotations = arg.before

\* of two annotations the second was the nearer one and was removed, the first
\* being out of reach
C29_Witness ==
    /\ arg.op = "remove"
    /\ Len(arg.before) = 2
    /\ Removed(2)
    /\ RLt(Reach, Apart(1))

\* a right-click 25 pixels from the only annotation left it in place
OutOfReachKept ==
    /\ arg.op = "remove"
    /\ Len(arg.before) = 1
    /\ Apart(1) = <<625, 1>>
    /\ current_annotations = arg.before

\* at zoom 1.1 an annotation 22 image pixels away was out of reach
ReachShrinksWithZoom ==
    /\ arg.op = "remove"
    /\ arg.zoom = <<11, 10>>
    /\ \E i \in 1..Len(arg.before) : RLt(Reach, Apart(i)) /\ RLt(Apart(i), <<576, 1>>)
    /\ current_annotations = arg.before

\* a left click beside the small image added nothing
OutsideClickIgnored ==
    /\ arg.op = "click" /\ Outside
    /\ arg.size = <<4, 4>>
    /\ arg.before # <<>>
    /\ current_annotations = arg.before

====
